---------------------------- MODULE Spec2Model ----------------------------
(***************************************************************************)
(* Model of the recording session controller, the segment capture loop     *)
(* and the segment merge of SpeechToTextApp (src/speech_to_text.py) and    *)
(* of ImprovedSpeechToTextApp (src/improved_speech_to_text.py).            *)
(*                                                                         *)
(* Time is a discrete clock `now` (time.time()); one unit of an audio      *)
(* duration is 100 ms.  The Tk main loop is one thread (`ui`): its         *)
(* handlers run one at a time, but the capture threads interleave with     *)
(* them at every attribute read and write.                                 *)
(***************************************************************************)
EXTENDS Integers, Sequences, FiniteSets, TLC

(***************************************************************************)
(* Bounds of the model.                                                    *)
(***************************************************************************)
MaxTime == 2
MaxThreads == 2
MaxChunks == 2
MaxSegs == 3

(***************************************************************************)
(* Encodings of Python's None.                                             *)
(***************************************************************************)
NoTime == -1
NoThread == 0
NoAudio == << >>

Threads == 1..MaxThreads

\* the duration (in 100 ms units) of a chunk returned by listen() in a session
ListenDurations == {15}

VARIABLES
    now,                  \* time.time()
    is_recording,
    is_paused,
    recording_thread,     \* id of the Thread object, NoThread for None
    recording_segments,   \* list of captured chunks
    recording_start_time,
    pause_start_time,
    total_pause_time,
    audio_data,           \* an audio: a sequence of pieces, NoAudio for None
    temp_files,           \* registry of temp file names (a list)
    fs,                   \* temp files that exist on disk
    ui,                   \* where the Tk thread is: "idle" or "joining"
    ui_queue,             \* callbacks posted with root.after, in order
    lastEvent,            \* the last controller call (and whether its guard let it run) or listen() failure
    disturbed,            \* threads whose capture in progress has seen a pause or a stop
    pc,                   \* pc[t]: statement capture thread t is at
    held,                 \* held[t]: the chunk listen() returned to t, << >> if none
    heard,                \* number of chunks listen() has returned so far
    elapsed,              \* elapsed[t]: the elapsed_time local of thread t, << >> when not set
    \* ImprovedSpeechToTextApp
    imp_is_recording,
    imp_recording_segments,
    imp_recording_start_time,
    imp_audio_data,
    imp_microphone,       \* TRUE iff self.microphone is not None
    imp_ui_queue,         \* callbacks posted with root.after, in order
    imp_pc,               \* imp_pc[t]: statement capture thread t is at
    imp_segment_count,    \* the local segment_count of thread t
    imp_silence_count,    \* the local silence_count of thread t
    imp_heard,            \* number of chunks listen() has returned so far
    \* a run of merge_audio_segments on given segments
    merge_run,            \* which class runs it, in which environment, and what it started from
    \* one call of cleanup_temp_files, and the threads that run beside it
    cleanup_run,          \* the locals of the call, and those of the merge that deletes its files
    \* one conversion of audio_data to text (convert_speech_to_text)
    cnv_app,              \* the class whose conversion runs: "main" or "improved"
    engine_var,           \* the engine radio button: "google" or "whisper"
    whisper_model,        \* TRUE iff self.whisper_model is not None
    text_result,          \* the lines shown in the result Text widget
    cnv_pc,               \* the conversion thread: "none", "running" or "done"
    cnv_queue,            \* callbacks posted with root.after, in order
    cnv_backend,          \* the recognizer the conversion thread called, "none" if none
    cnv_told,             \* TRUE iff the switch to Google was written to text_result
    cnv_count,            \* number of conversions started
    \* one synthesis of time stamps for a recognized text
    ts_in,                \* the recognized text, the start offset and what Whisper does
    ts_out,               \* the formatted text
    ts_state,             \* "none", "ready" or "done"
    \* the list of audio files (SpeechToTextApp)
    audio_files,          \* list of [path, name, order]
    current_processing_index,
    selection,            \* the selected row of file_tree, 0 for no selection
    file_op,              \* the last handler of the file list that ran
    \* batch conversion of the file list (SpeechToTextApp)
    enable_timestamps,
    total_elapsed_time,   \* the running offset, in half seconds
    all_text,             \* the sections built so far
    total_files,          \* the local total_files of process_batch_conversion
    batch_i,              \* the position (from 1) of the file the loop is at
    batch_pc,             \* "idle", "started", "running", "done" or "aborted"
    batch_queue,          \* callbacks posted with root.after, in order
    batch_alias,          \* TRUE iff the list the loop iterates is still self.audio_files
    batch_list,           \* the list the loop iterates, once self.audio_files is another list
    batch_started,        \* the file list as it was when the loop began
    \* one worker thread and the widgets it reports to
    ui_kind,              \* the function the worker runs, "none" if there is none
    ui_wpc,               \* the statement the worker is at
    ui_i,                 \* the loop variable i of background_task
    ui_after,             \* callbacks posted with root.after and not yet run, in order
    ui_sent,              \* every callback the worker has posted, in order
    ui_log                \* the calls made on widgets so far, each with the thread that made it

\* the fields of SpeechToTextApp and its threads (the disk, fs, is shared)
recVars == <<now, is_recording, is_paused, recording_thread, recording_segments,
             recording_start_time, pause_start_time, total_pause_time,
             audio_data, temp_files, ui, ui_queue, lastEvent, disturbed, pc, held, heard, elapsed>>

\* the fields of ImprovedSpeechToTextApp and its threads
impVars == <<imp_is_recording, imp_recording_segments, imp_recording_start_time,
             imp_audio_data, imp_microphone, imp_ui_queue, imp_pc,
             imp_segment_count, imp_silence_count, imp_heard>>

\* the state of a conversion
cnvVars == <<cnv_app, engine_var, whisper_model, text_result, cnv_pc, cnv_queue,
             cnv_backend, cnv_told, cnv_count>>

\* the state of a time stamp synthesis
tsVars == <<ts_in, ts_out, ts_state>>

\* the file list and its Treeview
fileVars == <<audio_files, current_processing_index, selection, file_op>>

\* the state of a batch conversion
batchVars == <<enable_timestamps, total_elapsed_time, all_text, total_files, batch_i,
               batch_pc, batch_queue,
               batch_alias, batch_list, batch_started>>

\* a worker and the widgets
uiVars == <<ui_kind, ui_wpc, ui_i, ui_after, ui_sent, ui_log>>

\* the state outside recording and merging
extVars == <<cleanup_run, cnvVars, tsVars, fileVars, batchVars, uiVars>>

vars == <<recVars, fs, impVars, merge_run, extVars>>

ctlFields == <<is_recording, is_paused, recording_segments, recording_start_time,
               pause_start_time, total_pause_time, recording_thread>>

\* Python truthiness of a time field: None and 0 are false
Truthy(t) == t # NoTime /\ t # 0

Alive(t) == t # NoThread /\ pc[t] \notin {"unborn", "done"}

Event(op, ok) == [op |-> op, ok |-> ok]

\* what the environment does to one merge run over n segments: the segments
\* whose temp file cannot be written, those whose file cannot be loaded,
\* whether the export and reload of the combined file works, and the segment
\* files whose os.unlink fails (a file that was not written is neither loaded
\* nor unlinked).  tmpfail is the call of tempfile.NamedTemporaryFile that
\* raises: 0 for none, i for the file of segment i, n + 1 for the combined
\* file; what would have come after that call is left out of o.
MergeEnvs(n) ==
    {o \in [wfail : SUBSET (1..n), rfail : SUBSET (1..n), export_ok : BOOLEAN,
            ulfail : SUBSET (1..n), tmpfail : 0..(n + 1)] :
        /\ o.rfail \cap o.wfail = {}
        /\ o.ulfail \cap o.wfail = {}
        /\ o.tmpfail # 0 => (o.export_ok /\ o.ulfail = {})
        /\ o.tmpfail \in 1..n => (o.rfail = {} /\ o.wfail \subseteq 1..(o.tmpfail - 1))}

NoEnv == [wfail |-> {}, rfail |-> {}, export_ok |-> TRUE, ulfail |-> {}, tmpfail |-> 0]

\* no call of cleanup_temp_files has been made
NoCleanup == [pc |-> "none", copy |-> << >>, i |-> 0, attempt |-> 0, log |-> << >>,
              returned |-> << >>, cleaned_files |-> << >>, failed_files |-> << >>,
              result |-> "none", w_files |-> << >>, w_i |-> 0, w_pc |-> "none",
              w_removed |-> {}, registered |-> FALSE]

\* no merge run is set up
NoRun == [app |-> "none", state |-> "none", env |-> NoEnv, before |-> NoAudio]

\* SpeechToTextApp.__init__
InitRec ==
    /\ now = 1
    /\ is_recording = FALSE
    /\ is_paused = FALSE
    /\ recording_thread = NoThread
    /\ recording_segments = << >>
    /\ recording_start_time = NoTime
    /\ pause_start_time = NoTime
    /\ total_pause_time = 0
    /\ audio_data = NoAudio
    /\ temp_files = << >>
    /\ fs = {}
    /\ ui = "idle"
    /\ ui_queue = << >>
    /\ lastEvent = Event("init", TRUE)
    /\ disturbed = {}
    /\ pc = [t \in Threads |-> "unborn"]
    /\ held = [t \in Threads |-> << >>]
    /\ heard = 0
    /\ elapsed = [t \in Threads |-> << >>]

\* ImprovedSpeechToTextApp.__init__; init_microphone may fail
InitImp ==
    /\ imp_is_recording = FALSE
    /\ imp_recording_segments = << >>
    /\ imp_recording_start_time = NoTime
    /\ imp_audio_data = NoAudio
    /\ imp_ui_queue = << >>
    /\ imp_pc = [t \in Threads |-> "unborn"]
    /\ imp_segment_count = [t \in Threads |-> 0]
    /\ imp_silence_count = [t \in Threads |-> 0]
    /\ imp_heard = 0

\* no conversion has been asked for: engine_var has its default and no
\* model is loaded
InitCnvFor(app, loaded) ==
    /\ cnv_app = app
    /\ engine_var = "google"
    /\ whisper_model = loaded
    /\ text_result = << >>
    /\ cnv_pc = "none"
    /\ cnv_queue = << >>
    /\ cnv_backend = "none"
    /\ cnv_told = FALSE
    /\ cnv_count = 0

InitCnv == InitCnvFor("main", FALSE)

\* Python values of type str or None: a str is the sequence of its lines,
\* each with the time stamp put in front of it (<< >> for no stamp)
None == [none |-> TRUE, lines |-> << >>]
Str(lines) == [none |-> FALSE, lines |-> lines]

\* no synthesis is set up
InitTs ==
    /\ ts_in = [text |-> None, start_time |-> 0, exact |-> "none", segments |-> << >>,
                again |-> None, loaded |-> TRUE]
    /\ ts_out = None
    /\ ts_state = "none"

\* SpeechToTextApp.__init__: audio_files = [], current_processing_index = 0
InitFiles ==
    /\ audio_files = << >>
    /\ current_processing_index = 0
    /\ selection = 0
    /\ file_op = "init"

\* SpeechToTextApp.__init__: total_elapsed_time = 0, enable_timestamps = False;
\* no batch thread
InitBatchVars ==
    /\ enable_timestamps = FALSE
    /\ total_elapsed_time = 0
    /\ all_text = << >>
    /\ total_files = 0
    /\ batch_i = 0
    /\ batch_pc = "idle"
    /\ batch_queue = << >>
    /\ batch_alias = FALSE
    /\ batch_list = << >>
    /\ batch_started = << >>

\* no worker has been started and no widget touched
InitUiVars ==
    /\ ui_kind = "none"
    /\ ui_wpc = "none"
    /\ ui_i = 0
    /\ ui_after = << >>
    /\ ui_sent = << >>
    /\ ui_log = << >>

\* the state outside recording and merging, after __init__
InitExt == cleanup_run = NoCleanup /\ InitCnv /\ InitTs /\ InitFiles /\ InitBatchVars /\ InitUiVars

Init ==
    /\ InitRec
    /\ InitImp
    /\ imp_microphone = TRUE
    /\ merge_run = NoRun
    /\ InitExt

(***************************************************************************)
(* Audio values.  A chunk returned by listen() is a record; an audio       *)
(* (sr.AudioData / pydub AudioSegment) is the sequence of its pieces.      *)
(***************************************************************************)
SilenceGap == 2

Chunk(t, k, d) == [by |-> t, n |-> k, dur |-> d]

\* AudioSegment.silent(duration=200)
Silent(d) == [by |-> 0, n |-> 0, dur |-> d]

RECURSIVE Duration(_)
\* len(audio) in 100 ms units
Duration(a) == IF a = << >> THEN 0 ELSE Head(a).dur + Duration(Tail(a))

\* the captured chunks of an audio, silence left out, in their order
Speech(a) == SelectSeq(a, LAMBDA p : p.by # 0)

\* name given by tempfile.NamedTemporaryFile in merge run `run`
SegmentFile(run, i) == <<run, "segment", i>>
CombinedFile(run) == <<run, "combined", 0>>

\* the indices 1..n outside `bad`, in increasing order
Kept(n, bad) == SelectSeq([i \in 1..n |-> i], LAMBDA i : i \notin bad)

(***************************************************************************)
(* SpeechToTextApp.merge_audio_segments: the values of audio_data,         *)
(* temp_files and the disk after one run over `segs` in environment o.     *)
(***************************************************************************)
\* a fallback that takes recording_segments[-1]
LastSegment(segs) == <<segs[Len(segs)]>>

\* the fallback of the except clauses: self.audio_data = self.recording_segments[0]
FirstSegment(segs) == <<segs[1]>>

\* a loop over the segment files that stops one short
MainCombinedSkipsLast(segs, loaded) == [k \in 1..(Len(loaded) - 1) |-> segs[loaded[k]]]

\* combined += segment_audio for every loadable segment file
MainCombined(segs, loaded) == [k \in 1..Len(loaded) |-> segs[loaded[k]]]

\* an empty merge that takes recording_segments[0]
FirstOnEmpty(audio, segs) == <<segs[1]>>

\* the two returns taken when nothing was written or loaded: audio_data is
\* not assigned
KeptOnEmpty(audio, segs) == audio

\* what the run prints last about its outcome
MainMergeReport(segs, o) ==
    LET n == Len(segs)
        written == Kept(n, o.wfail)
        loaded == SelectSeq(written, LAMBDA i : i \notin o.rfail)
    IN  IF n <= 1 THEN "none"
        ELSE IF o.tmpfail \in 1..n THEN "merge_failed"
        ELSE IF written = << >> THEN "no_valid_segments"
        ELSE IF loaded = << >> THEN "combined_empty"
        ELSE IF o.tmpfail = n + 1 THEN "merge_failed"
        ELSE IF o.export_ok THEN "merged" ELSE "final_step_failed"

\* the path for two or more segments
MergeSeveral(segs, audio, tfs, files, run, o) ==
    LET n == Len(segs)
        written == Kept(n, o.wfail)
        loaded == SelectSeq(written, LAMBDA i : i \notin o.rfail)
        segNames == [k \in 1..Len(written) |-> SegmentFile(run, written[k])]
        created == {SegmentFile(run, i) : i \in 1..n}
        combined == MainCombined(segs, loaded)
        deleted == {SegmentFile(run, i) : i \in {j \in 1..n : j \notin o.wfail /\ j \notin o.ulfail}}
        before == SelectSeq(written, LAMBDA i : i < o.tmpfail)
    IN  IF o.tmpfail \in 1..n
        THEN \* NamedTemporaryFile raises in the loop: the outer except clause
             [audio_data |-> FirstSegment(segs),
              temp_files |-> tfs \o [k \in 1..Len(before) |-> SegmentFile(run, before[k])],
              fs |-> files \cup {SegmentFile(run, i) : i \in 1..(o.tmpfail - 1)}]
        ELSE IF written = << >>
        THEN [audio_data |-> KeptOnEmpty(audio, segs), temp_files |-> tfs,
              fs |-> files \cup created]
        ELSE IF Duration(combined) = 0
        THEN [audio_data |-> KeptOnEmpty(audio, segs), temp_files |-> tfs \o segNames,
              fs |-> files \cup created]
        ELSE IF o.tmpfail = n + 1
        THEN \* NamedTemporaryFile of the combined file raises: the outer except
             [audio_data |-> FirstSegment(segs), temp_files |-> tfs \o segNames,
              fs |-> files \cup created]
        ELSE [audio_data |-> IF o.export_ok THEN combined ELSE FirstSegment(segs),
              temp_files |-> SelectSeq(Append(tfs \o segNames, CombinedFile(run)),
                                       LAMBDA f : f \notin deleted),
              fs |-> ((files \cup created) \cup {CombinedFile(run)}) \ deleted]

\* a merge without the pass-through of a single segment
MergeAlwaysSeveral(segs, audio, tfs, files, run, o) ==
    IF Len(segs) = 0 THEN [audio_data |-> audio, temp_files |-> tfs, fs |-> files]
    ELSE MergeSeveral(segs, audio, tfs, files, run, o)

MergeAudioSegments(segs, audio, tfs, files, run, o) ==
    IF Len(segs) = 0 THEN [audio_data |-> audio, temp_files |-> tfs, fs |-> files]
    ELSE IF Len(segs) = 1 THEN [audio_data |-> <<segs[1]>>, temp_files |-> tfs, fs |-> files]
    ELSE MergeSeveral(segs, audio, tfs, files, run, o)

(***************************************************************************)
(* ImprovedSpeechToTextApp.merge_audio_segments                            *)
(***************************************************************************)
RECURSIVE ImpCombined(_)
\* combined += segment_audio; combined += AudioSegment.silent(duration=200)
ImpCombined(segs) ==
    IF segs = << >> THEN << >>
    ELSE <<Head(segs), Silent(SilenceGap)>> \o ImpCombined(Tail(segs))

\* the least element of a non-empty set of numbers
Least(S) == CHOOSE x \in S : \A y \in S : x <= y

\* the path for two or more segments: any failure is caught by the one
\* except clause, which falls back to the first segment
ImpMergeSeveral(segs, audio, files, run, o) ==
    LET n == Len(segs)
        all == {SegmentFile(run, i) : i \in 1..n}
        deleted == {SegmentFile(run, i) : i \in (1..n) \ o.ulfail}
        firstBad == Least(o.wfail \cup (IF o.tmpfail \in 1..n THEN {o.tmpfail} ELSE {}))
    IN  IF o.tmpfail \in 1..n /\ firstBad = o.tmpfail
        THEN [audio_data |-> FirstSegment(segs),
              fs |-> files \cup {SegmentFile(run, i) : i \in 1..(o.tmpfail - 1)}]
        ELSE IF o.wfail # {}
        THEN [audio_data |-> FirstSegment(segs),
              fs |-> files \cup {SegmentFile(run, i) : i \in 1..Least(o.wfail)}]
        ELSE IF o.rfail # {}
        THEN [audio_data |-> FirstSegment(segs), fs |-> files \cup all]
        ELSE IF o.tmpfail = n + 1
        THEN [audio_data |-> FirstSegment(segs), fs |-> files \cup all]
        ELSE IF ~o.export_ok
        THEN [audio_data |-> FirstSegment(segs), fs |-> (files \cup all) \cup {CombinedFile(run)}]
        ELSE [audio_data |-> ImpCombined(segs), fs |-> (files \cup all) \ deleted]

ImpMergeAudioSegments(segs, audio, files, run, o) ==
    IF Len(segs) = 0 THEN [audio_data |-> audio, fs |-> files]
    ELSE IF Len(segs) = 1 THEN [audio_data |-> <<segs[1]>>, fs |-> files]
    ELSE ImpMergeSeveral(segs, audio, files, run, o)

(***************************************************************************)
(* SpeechToTextApp: the controller methods.  They are Tk callbacks and run *)
(* on the Tk thread, one at a time; each writes its fields in one step.    *)
(* stop_recording waits in Thread.join(timeout=2) (ui = "joining"), and no *)
(* other callback runs meanwhile.                                          *)
(***************************************************************************)
\* start_recording without its test of is_recording
StartAlways == TRUE

\* the early-return tests of the four transitions
StartAllowed == ~is_recording
PauseAllowed == ~(~is_recording \/ is_paused)
ResumeAllowed == ~(~is_recording \/ ~is_paused)
StopAllowed == ~(~is_recording)

\* the call returns at once and leaves every field as it is
Refused(op) ==
    /\ lastEvent' = Event(op, FALSE)
    /\ UNCHANGED <<now, is_recording, is_paused, recording_thread, recording_segments,
                   recording_start_time, pause_start_time, total_pause_time,
                   audio_data, temp_files, fs, ui, disturbed, pc, held, heard, elapsed>>

\* the statements from the call of listen() to the append
CapturePcs == {"listen", "got", "got2", "append"}

\* the threads that are between the call of listen() and the append
Capturing == {t \in Threads : pc[t] \in CapturePcs}

\* the Thread object start_recording creates: the first one not yet started
FreshThread == CHOOSE t \in Threads : pc[t] = "unborn" /\ \A u \in 1..(t - 1) : pc[u] # "unborn"

\* a start_recording that creates the Thread and never starts it
SpawnNothing(t) == pc

\* threading.Thread(target=self.record_audio).start()
Spawn(t) == [pc EXCEPT ![t] = "adjust"]

StartRecording ==
    /\ ui = "idle"
    /\ IF StartAllowed
       THEN /\ \E t \in Threads : pc[t] = "unborn"
            /\ is_recording' = TRUE
            /\ is_paused' = FALSE
            /\ recording_segments' = << >>
            /\ recording_start_time' = now
            /\ total_pause_time' = 0
            /\ recording_thread' = FreshThread
            /\ pc' = Spawn(FreshThread)
            /\ lastEvent' = Event("start", TRUE)
            /\ UNCHANGED <<now, pause_start_time, audio_data, temp_files, fs, ui, disturbed,
                           held, heard, elapsed>>
       ELSE Refused("start")
    /\ UNCHANGED ui_queue

PauseRecording ==
    /\ ui = "idle"
    /\ IF PauseAllowed
       THEN /\ is_paused' = TRUE
            /\ pause_start_time' = now
            /\ lastEvent' = Event("pause", TRUE)
            /\ disturbed' = disturbed \cup Capturing
            /\ UNCHANGED <<now, is_recording, recording_thread, recording_segments,
                           recording_start_time, total_pause_time, audio_data,
                           temp_files, fs, ui, pc, held, heard, elapsed>>
       ELSE Refused("pause")
    /\ UNCHANGED ui_queue

ResumeRecording ==
    /\ ui = "idle"
    /\ IF ResumeAllowed
       THEN /\ IF Truthy(pause_start_time)
               THEN /\ total_pause_time' = total_pause_time + (now - pause_start_time)
                    /\ pause_start_time' = NoTime
               ELSE UNCHANGED <<total_pause_time, pause_start_time>>
            /\ is_paused' = FALSE
            /\ lastEvent' = Event("resume", TRUE)
            /\ UNCHANGED <<now, is_recording, recording_thread, recording_segments,
                           recording_start_time, audio_data, temp_files, fs, ui,
                           disturbed, pc, held, heard, elapsed>>
       ELSE Refused("resume")
    /\ UNCHANGED ui_queue

\* the test of stop_recording with pause_start_time negated
StopFinalizesPauseWrong == is_paused /\ ~Truthy(pause_start_time)

\* stop_recording adds the pause in progress to total_pause_time
StopFinalizesPause == is_paused /\ Truthy(pause_start_time)

\* stop_recording up to the join: the thread is waited for only if it is alive
StopBody ==
    IF StopAllowed
    THEN /\ IF StopFinalizesPause
            THEN /\ total_pause_time' = total_pause_time + (now - pause_start_time)
                 /\ pause_start_time' = NoTime
            ELSE UNCHANGED <<total_pause_time, pause_start_time>>
         /\ is_recording' = FALSE
         /\ is_paused' = FALSE
         /\ ui' = IF Alive(recording_thread) THEN "joining" ELSE "idle"
         /\ lastEvent' = Event("stop", TRUE)
         /\ disturbed' = disturbed \cup Capturing
         /\ UNCHANGED <<now, recording_thread, recording_segments, recording_start_time,
                        audio_data, temp_files, fs, pc, held, heard, elapsed>>
    ELSE Refused("stop")

\* the stop button
StopRecording ==
    /\ ui = "idle"
    /\ StopBody
    /\ UNCHANGED ui_queue

\* root.after(0, self.stop_recording), run by the Tk thread
RunPosted ==
    /\ ui = "idle"
    /\ ui_queue # << >>
    /\ Head(ui_queue) = "stop_recording"
    /\ StopBody
    /\ ui_queue' = Tail(ui_queue)

\* join(timeout=2) returns when the thread has ended or when the timeout has
\* passed, whichever is first; stop_recording then shows the status and returns
JoinMayReturn == TRUE

StopJoinReturn ==
    /\ ui = "joining"
    /\ JoinMayReturn
    /\ ui' = "idle"
    /\ UNCHANGED <<now, is_recording, is_paused, recording_thread, recording_segments,
                   recording_start_time, pause_start_time, total_pause_time,
                   audio_data, temp_files, fs, ui_queue, lastEvent, disturbed, pc, held, heard, elapsed>>

\* cleanup_temp_files: safe_file_cleanup fails for the files in `stuck`, which
\* stay in the registry and on disk
CleanupTempFiles(tfs, files, stuck) ==
    [temp_files |-> SelectSeq(tfs, LAMBDA f : f \in stuck),
     fs |-> files \ ({tfs[i] : i \in 1..Len(tfs)} \ stuck)]

\* the sets of files whose deletion the environment may refuse
StuckSets(tfs, files) == {{}, {tfs[i] : i \in 1..Len(tfs)} \cap files}

ResetAll ==
    /\ ui = "idle"
    /\ is_recording' = FALSE
    /\ is_paused' = FALSE
    /\ recording_thread' = NoThread
    /\ pause_start_time' = NoTime
    /\ total_pause_time' = 0
    /\ audio_data' = NoAudio
    /\ recording_segments' = << >>
    /\ recording_start_time' = NoTime
    /\ \E stuck \in StuckSets(temp_files, fs) :
          LET r == CleanupTempFiles(temp_files, fs, stuck)
          IN  temp_files' = r.temp_files /\ fs' = r.fs
    /\ lastEvent' = Event("reset", TRUE)
    /\ UNCHANGED <<now, ui, ui_queue, disturbed, pc, held, heard, elapsed>>

(***************************************************************************)
(* SpeechToTextApp: a capture thread, running record_audio and then        *)
(* continuous_recording (record_mode_var = "continuous", the default).     *)
(* Every read of a shared field is a step of its own.                      *)
(***************************************************************************)
thrRest == <<now, is_recording, is_paused, recording_thread, recording_start_time,
             pause_start_time, total_pause_time, ui>>

\* record_audio: adjust_for_ambient_noise works and the loop is entered, or it
\* raises and stop_recording is posted to the Tk thread
ThreadAdjust(t) ==
    /\ pc[t] = "adjust"
    /\ \/ /\ pc' = [pc EXCEPT ![t] = "loop"]
          /\ UNCHANGED ui_queue
       \/ /\ pc' = [pc EXCEPT ![t] = "done"]
          /\ ui_queue' = Append(ui_queue, "stop_recording")
    /\ UNCHANGED <<thrRest, lastEvent, disturbed, recording_segments, audio_data,
                   temp_files, fs, held, heard, elapsed>>

\* while self.is_recording:
LoopGoesOn == is_recording

ThreadLoop(t) ==
    /\ pc[t] = "loop"
    /\ pc' = [pc EXCEPT ![t] = IF LoopGoesOn THEN "pchk" ELSE "exit"]
    /\ UNCHANGED <<thrRest, lastEvent, disturbed, recording_segments, audio_data,
                   temp_files, fs, ui_queue, held, heard, elapsed>>

\* if self.is_paused: time.sleep(0.1); continue -- else listen() is called
ThreadPausedCheck(t) ==
    /\ pc[t] = "pchk"
    /\ pc' = [pc EXCEPT ![t] = IF is_paused THEN "loop" ELSE "listen"]
    /\ disturbed' = disturbed \ {t}
    /\ UNCHANGED <<thrRest, lastEvent, recording_segments, audio_data, temp_files, fs,
                   ui_queue, held, heard, elapsed>>

\* listen() returns a chunk
ThreadListenChunk(t) ==
    /\ pc[t] = "listen"
    /\ heard < MaxChunks
    /\ \E d \in ListenDurations : held' = [held EXCEPT ![t] = <<Chunk(t, heard + 1, d)>>]
    /\ heard' = heard + 1
    /\ pc' = [pc EXCEPT ![t] = "got"]
    /\ UNCHANGED <<thrRest, lastEvent, disturbed, recording_segments, audio_data,
                   temp_files, fs, ui_queue, elapsed>>

\* a wait-timeout that ends the loop
AfterTimeoutEnds == "exit"

\* where the loop goes after listen() raised WaitTimeoutError: continue
AfterTimeout == "loop"

\* listen() raises sr.WaitTimeoutError
ThreadListenTimeout(t) ==
    /\ pc[t] = "listen"
    /\ pc' = [pc EXCEPT ![t] = AfterTimeout]
    /\ lastEvent' = Event("wait_timeout", TRUE)
    /\ disturbed' = disturbed \ {t}
    /\ UNCHANGED <<thrRest, recording_segments, audio_data, temp_files, fs, ui_queue,
                   held, heard, elapsed>>

\* an exception that ends the loop
AfterErrorEnds == "exit"

\* where the loop goes after listen() raised another exception: continue
AfterError == "loop"

\* listen() (or opening the microphone) raises another exception
ThreadListenError(t) ==
    /\ pc[t] = "listen"
    /\ pc' = [pc EXCEPT ![t] = AfterError]
    /\ lastEvent' = Event("listen_error", TRUE)
    /\ disturbed' = disturbed \ {t}
    /\ UNCHANGED <<thrRest, recording_segments, audio_data, temp_files, fs, ui_queue,
                   held, heard, elapsed>>

\* if self.is_recording ...
ThreadGot(t) ==
    /\ pc[t] = "got"
    /\ IF is_recording
       THEN /\ pc' = [pc EXCEPT ![t] = "got2"]
            /\ UNCHANGED <<held, disturbed>>
       ELSE /\ pc' = [pc EXCEPT ![t] = "loop"]
            /\ held' = [held EXCEPT ![t] = << >>]
            /\ disturbed' = disturbed \ {t}
    /\ UNCHANGED <<thrRest, lastEvent, recording_segments, audio_data, temp_files, fs,
                   ui_queue, heard, elapsed>>

\* ... and not self.is_paused:
ThreadGot2(t) ==
    /\ pc[t] = "got2"
    /\ IF ~is_paused
       THEN /\ pc' = [pc EXCEPT ![t] = "append"]
            /\ UNCHANGED <<held, disturbed>>
       ELSE /\ pc' = [pc EXCEPT ![t] = "loop"]
            /\ held' = [held EXCEPT ![t] = << >>]
            /\ disturbed' = disturbed \ {t}
    /\ UNCHANGED <<thrRest, lastEvent, recording_segments, audio_data, temp_files, fs,
                   ui_queue, heard, elapsed>>

\* self.recording_segments.append(audio)
ThreadAppend(t) ==
    /\ pc[t] = "append"
    /\ recording_segments' = recording_segments \o held[t]
    /\ held' = [held EXCEPT ![t] = << >>]
    /\ disturbed' = disturbed \ {t}
    /\ pc' = [pc EXCEPT ![t] = "elapsed"]
    /\ UNCHANGED <<thrRest, lastEvent, audio_data, temp_files, fs, ui_queue, heard, elapsed>>

\* elapsed_time = time.time() - self.recording_start_time - self.total_pause_time;
\* with recording_start_time None (after reset_all) the subtraction raises
\* TypeError, which the except clause of the loop catches
ThreadElapsed(t) ==
    /\ pc[t] = "elapsed"
    /\ IF recording_start_time = NoTime
       THEN /\ pc' = [pc EXCEPT ![t] = "loop"]
            /\ UNCHANGED elapsed
       ELSE /\ pc' = [pc EXCEPT ![t] = "status"]
            /\ elapsed' = [elapsed EXCEPT ![t] = <<now - recording_start_time - total_pause_time>>]
    /\ UNCHANGED <<thrRest, lastEvent, disturbed, recording_segments, audio_data,
                   temp_files, fs, ui_queue, held, heard>>

\* if self.pause_start_time: elapsed_time -= time.time() - self.pause_start_time:
\* the effective time the status text shows
ShownElapsed(t) ==
    IF Truthy(pause_start_time)
    THEN elapsed[t][1] - (now - pause_start_time)
    ELSE elapsed[t][1]

\* the status text is posted with root.after
ThreadStatus(t) ==
    /\ pc[t] = "status"
    /\ elapsed' = [elapsed EXCEPT ![t] = << >>]
    /\ pc' = [pc EXCEPT ![t] = "loop"]
    /\ UNCHANGED <<thrRest, lastEvent, disturbed, recording_segments, audio_data,
                   temp_files, fs, ui_queue, held, heard>>

\* if self.recording_segments: self.merge_audio_segments()
ThreadExit(t) ==
    /\ pc[t] = "exit"
    /\ pc' = [pc EXCEPT ![t] = IF recording_segments # << >> THEN "merge" ELSE "done"]
    /\ UNCHANGED <<thrRest, lastEvent, disturbed, recording_segments, audio_data,
                   temp_files, fs, ui_queue, held, heard, elapsed>>

\* the environments a session's merge is run in
SessionMergeEnvs(n) ==
    {NoEnv, [NoEnv EXCEPT !.rfail = 1..n], [NoEnv EXCEPT !.export_ok = FALSE]}

ThreadMerge(t) ==
    /\ pc[t] = "merge"
    /\ \E o \in SessionMergeEnvs(Len(recording_segments)) :
          LET r == MergeAudioSegments(recording_segments, audio_data, temp_files, fs, t, o)
          IN  /\ audio_data' = r.audio_data
              /\ temp_files' = r.temp_files
              /\ fs' = r.fs
    /\ pc' = [pc EXCEPT ![t] = "done"]
    /\ UNCHANGED <<thrRest, lastEvent, disturbed, recording_segments, ui_queue, held, heard, elapsed>>

ThreadStep(t) ==
    \/ ThreadAdjust(t)
    \/ ThreadLoop(t)
    \/ ThreadPausedCheck(t)
    \/ ThreadListenChunk(t)
    \/ ThreadListenTimeout(t)
    \/ ThreadListenError(t)
    \/ ThreadGot(t)
    \/ ThreadGot2(t)
    \/ ThreadAppend(t)
    \/ ThreadElapsed(t)
    \/ ThreadStatus(t)
    \/ ThreadExit(t)
    \/ ThreadMerge(t)

Tick ==
    /\ now < MaxTime
    /\ now' = now + 1
    /\ UNCHANGED <<is_recording, is_paused, recording_thread, recording_segments,
                   recording_start_time, pause_start_time, total_pause_time,
                   audio_data, temp_files, fs, ui, ui_queue, lastEvent, disturbed, pc, held, heard, elapsed>>

RecNext ==
    \/ Tick
    \/ StartRecording
    \/ PauseRecording
    \/ ResumeRecording
    \/ StopRecording
    \/ RunPosted
    \/ StopJoinReturn
    \/ ResetAll
    \/ \E t \in Threads : ThreadStep(t)

Next == RecNext /\ UNCHANGED <<impVars, merge_run, extVars>>

Spec == Init /\ [][Next]_vars

(***************************************************************************)
(* ImprovedSpeechToTextApp: the record button and the capture thread       *)
(* (record_mode_var = "continuous", the default).                          *)
(***************************************************************************)
max_silence == 3

impRest == <<imp_recording_start_time, imp_microphone>>

\* start_recording: an error box if there is no microphone, else a new thread
ImpStartRecording ==
    IF ~imp_microphone
    THEN UNCHANGED <<imp_is_recording, imp_pc>>
    ELSE /\ \E t \in Threads : imp_pc[t] = "unborn"
         /\ imp_is_recording' = TRUE
         /\ imp_pc' = [imp_pc EXCEPT ![CHOOSE t \in Threads : imp_pc[t] = "unborn"
                                          /\ \A u \in 1..(t - 1) : imp_pc[u] # "unborn"] = "begin"]

ImpStopRecording ==
    /\ imp_is_recording' = FALSE
    /\ UNCHANGED imp_pc

\* toggle_recording, the command of the record button
ImpToggleRecording ==
    /\ IF ~imp_is_recording THEN ImpStartRecording ELSE ImpStopRecording
    /\ UNCHANGED <<imp_recording_segments, imp_recording_start_time, imp_audio_data,
                   imp_microphone, imp_ui_queue, imp_segment_count, imp_silence_count,
                   imp_heard, fs>>

\* root.after(0, self.stop_recording), run by the Tk thread
ImpRunPosted ==
    /\ imp_ui_queue # << >>
    /\ Head(imp_ui_queue) = "stop_recording"
    /\ imp_ui_queue' = Tail(imp_ui_queue)
    /\ ImpStopRecording
    /\ UNCHANGED <<imp_recording_segments, imp_recording_start_time, imp_audio_data,
                   imp_microphone, imp_segment_count, imp_silence_count, imp_heard, fs>>

\* record_audio: self.recording_segments = []; self.recording_start_time = time.time()
ImpThreadBegin(t) ==
    /\ imp_pc[t] = "begin"
    /\ imp_recording_segments' = << >>
    /\ imp_recording_start_time' = now
    /\ imp_pc' = [imp_pc EXCEPT ![t] = "adjust"]
    /\ UNCHANGED <<imp_is_recording, imp_audio_data, imp_microphone, imp_ui_queue,
                   imp_segment_count, imp_silence_count, imp_heard, fs>>

\* record_audio: adjust_for_ambient_noise works and continuous_recording starts
\* (segment_count = 0, silence_count = 0), or it raises and stop_recording is posted
ImpThreadAdjust(t) ==
    /\ imp_pc[t] = "adjust"
    /\ \/ /\ imp_pc' = [imp_pc EXCEPT ![t] = "loop"]
          /\ imp_segment_count' = [imp_segment_count EXCEPT ![t] = 0]
          /\ imp_silence_count' = [imp_silence_count EXCEPT ![t] = 0]
          /\ UNCHANGED imp_ui_queue
       \/ /\ imp_pc' = [imp_pc EXCEPT ![t] = "done"]
          /\ imp_ui_queue' = Append(imp_ui_queue, "stop_recording")
          /\ UNCHANGED <<imp_segment_count, imp_silence_count>>
    /\ UNCHANGED <<imp_is_recording, imp_recording_segments, impRest, imp_audio_data,
                   imp_heard, fs>>

\* while self.is_recording:
ImpThreadLoop(t) ==
    /\ imp_pc[t] = "loop"
    /\ imp_pc' = [imp_pc EXCEPT ![t] = IF imp_is_recording THEN "listen" ELSE "exit"]
    /\ UNCHANGED <<imp_is_recording, imp_recording_segments, impRest, imp_audio_data,
                   imp_ui_queue, imp_segment_count, imp_silence_count, imp_heard, fs>>

\* listen() returns a chunk, which is appended; silence_count = 0
ImpThreadListenChunk(t) ==
    /\ imp_pc[t] = "listen"
    /\ imp_heard < MaxChunks
    /\ \E d \in ListenDurations :
          imp_recording_segments' = Append(imp_recording_segments, Chunk(t, imp_heard + 1, d))
    /\ imp_heard' = imp_heard + 1
    /\ imp_segment_count' = [imp_segment_count EXCEPT ![t] = @ + 1]
    /\ imp_silence_count' = [imp_silence_count EXCEPT ![t] = 0]
    /\ imp_pc' = [imp_pc EXCEPT ![t] = "loop"]
    /\ UNCHANGED <<imp_is_recording, impRest, imp_audio_data, imp_ui_queue, fs>>

\* the test made after silence_count += 1
ImpSilenceStops(silence, segments) == silence >= max_silence /\ segments > 0

\* listen() raises sr.WaitTimeoutError.  silence_count is compared with
\* max_silence only, so it is kept up to max_silence.
ImpThreadListenTimeout(t) ==
    /\ imp_pc[t] = "listen"
    /\ LET silence == IF imp_silence_count[t] < max_silence
                      THEN imp_silence_count[t] + 1 ELSE imp_silence_count[t]
       IN  /\ imp_silence_count' = [imp_silence_count EXCEPT ![t] = silence]
           /\ IF ImpSilenceStops(silence, imp_segment_count[t])
              THEN /\ imp_ui_queue' = Append(imp_ui_queue, "stop_recording")
                   /\ imp_pc' = [imp_pc EXCEPT ![t] = "exit"]
              ELSE /\ UNCHANGED imp_ui_queue
                   /\ imp_pc' = [imp_pc EXCEPT ![t] = "loop"]
    /\ UNCHANGED <<imp_is_recording, imp_recording_segments, impRest, imp_audio_data,
                   imp_segment_count, imp_heard, fs>>

\* listen() (or opening the microphone) raises another exception
ImpThreadListenError(t) ==
    /\ imp_pc[t] = "listen"
    /\ imp_pc' = [imp_pc EXCEPT ![t] = AfterError]
    /\ UNCHANGED <<imp_is_recording, imp_recording_segments, impRest, imp_audio_data,
                   imp_ui_queue, imp_segment_count, imp_silence_count, imp_heard, fs>>

\* if self.recording_segments: ... merge_audio_segments() else: status "no audio"
ImpThreadExit(t) ==
    /\ imp_pc[t] = "exit"
    /\ imp_pc' = [imp_pc EXCEPT ![t] = IF imp_recording_segments # << >> THEN "merge" ELSE "done"]
    /\ UNCHANGED <<imp_is_recording, imp_recording_segments, impRest, imp_audio_data,
                   imp_ui_queue, imp_segment_count, imp_silence_count, imp_heard, fs>>

ImpThreadMerge(t) ==
    /\ imp_pc[t] = "merge"
    /\ \E o \in SessionMergeEnvs(Len(imp_recording_segments)) :
          LET r == ImpMergeAudioSegments(imp_recording_segments, imp_audio_data, fs, t, o)
          IN  /\ imp_audio_data' = r.audio_data
              /\ fs' = r.fs
    /\ imp_pc' = [imp_pc EXCEPT ![t] = "done"]
    /\ UNCHANGED <<imp_is_recording, imp_recording_segments, impRest, imp_ui_queue,
                   imp_segment_count, imp_silence_count, imp_heard>>

ImpThreadStep(t) ==
    \/ ImpThreadBegin(t)
    \/ ImpThreadAdjust(t)
    \/ ImpThreadLoop(t)
    \/ ImpThreadListenChunk(t)
    \/ ImpThreadListenTimeout(t)
    \/ ImpThreadListenError(t)
    \/ ImpThreadExit(t)
    \/ ImpThreadMerge(t)

ImpNext ==
    \/ ImpToggleRecording
    \/ ImpRunPosted
    \/ \E t \in Threads : ImpThreadStep(t)

InitImproved ==
    /\ InitRec
    /\ InitImp
    /\ imp_microphone \in BOOLEAN
    /\ merge_run = NoRun
    /\ InitExt

NextImproved == ImpNext /\ UNCHANGED <<recVars, merge_run, extVars>>

SpecImproved == InitImproved /\ [][NextImproved]_vars

\* one of the two applications has been started and runs
InitEither ==
    /\ InitRec
    /\ InitImp
    /\ merge_run = NoRun
    /\ cleanup_run = NoCleanup
    /\ cnv_app \in {"main", "improved"}
    /\ imp_microphone \in IF cnv_app = "main" THEN {TRUE} ELSE BOOLEAN
    /\ engine_var = "google"
    /\ whisper_model = FALSE
    /\ text_result = << >>
    /\ cnv_pc = "none"
    /\ cnv_queue = << >>
    /\ cnv_backend = "none"
    /\ cnv_told = FALSE
    /\ cnv_count = 0
    /\ InitTs
    /\ InitFiles
    /\ InitBatchVars
    /\ InitUiVars

NextEither ==
    \/ cnv_app = "main" /\ Next
    \/ cnv_app = "improved" /\ NextImproved

SpecEither == InitEither /\ [][NextEither]_vars


(***************************************************************************)
(* One run of merge_audio_segments, of either class, on a given list of    *)
(* segments: the inputs are drawn at the start, the run is one step.       *)
(***************************************************************************)
SegDurations == {15, 18, 20}

\* the segment lists of up to MaxSegs chunks captured by one loop
SegLists ==
    UNION {{[i \in 1..n |-> Chunk(1, i, f[i])] : f \in [1..n -> SegDurations]} : n \in 0..MaxSegs}

\* an audio_data left by an earlier recording or upload
PriorAudio == <<[by |-> -1, n |-> 0, dur |-> 10]>>

\* every field has its value of __init__, but recording_segments and audio_data
\* of the class that runs the merge, which are the run's inputs
InitMergeRun ==
    \E app \in {"main", "improved"}, segs \in SegLists, a \in {NoAudio, PriorAudio} :
        /\ merge_run = [app |-> app, state |-> "ready", env |-> NoEnv, before |-> a]
        /\ now = 1
        /\ is_recording = FALSE
        /\ is_paused = FALSE
        /\ recording_thread = NoThread
        /\ recording_segments = IF app = "main" THEN segs ELSE << >>
        /\ recording_start_time = NoTime
        /\ pause_start_time = NoTime
        /\ total_pause_time = 0
        /\ audio_data = IF app = "main" THEN a ELSE NoAudio
        /\ temp_files = << >>
        /\ fs = {}
        /\ ui = "idle"
        /\ ui_queue = << >>
        /\ lastEvent = Event("init", TRUE)
        /\ disturbed = {}
        /\ pc = [t \in Threads |-> "unborn"]
        /\ held = [t \in Threads |-> << >>]
        /\ heard = 0
        /\ elapsed = [t \in Threads |-> << >>]
        /\ imp_is_recording = FALSE
        /\ imp_recording_segments = IF app = "improved" THEN segs ELSE << >>
        /\ imp_recording_start_time = NoTime
        /\ imp_audio_data = IF app = "improved" THEN a ELSE NoAudio
        /\ imp_microphone = TRUE
        /\ imp_ui_queue = << >>
        /\ imp_pc = [t \in Threads |-> "unborn"]
        /\ imp_segment_count = [t \in Threads |-> 0]
        /\ imp_silence_count = [t \in Threads |-> 0]
        /\ imp_heard = 0
        /\ InitExt

\* SpeechToTextApp.merge_audio_segments()
RunMainMerge ==
    /\ merge_run.app = "main"
    /\ merge_run.state = "ready"
    /\ \E o \in MergeEnvs(Len(recording_segments)) :
          LET r == MergeAudioSegments(recording_segments, audio_data, temp_files, fs, 1, o)
          IN  /\ audio_data' = r.audio_data
              /\ temp_files' = r.temp_files
              /\ fs' = r.fs
              /\ merge_run' = [merge_run EXCEPT !.state = "done", !.env = o]
    /\ UNCHANGED <<now, is_recording, is_paused, recording_thread, recording_segments,
                   recording_start_time, pause_start_time, total_pause_time,
                   ui, ui_queue, lastEvent, disturbed, pc, held, heard, elapsed, impVars, extVars>>

\* ImprovedSpeechToTextApp.merge_audio_segments()
RunImprovedMerge ==
    /\ merge_run.app = "improved"
    /\ merge_run.state = "ready"
    /\ \E o \in MergeEnvs(Len(imp_recording_segments)) :
          LET r == ImpMergeAudioSegments(imp_recording_segments, imp_audio_data, fs, 1, o)
          IN  /\ imp_audio_data' = r.audio_data
              /\ fs' = r.fs
              /\ merge_run' = [merge_run EXCEPT !.state = "done", !.env = o]
    /\ UNCHANGED <<recVars, imp_is_recording, imp_recording_segments,
                   imp_recording_start_time, imp_microphone, imp_ui_queue, imp_pc,
                   imp_segment_count, imp_silence_count, imp_heard, extVars>>

NextMerge == RunMainMerge \/ RunImprovedMerge

SpecMerge == InitMergeRun /\ [][NextMerge]_vars

(***************************************************************************)
(* convert_speech_to_text of both classes on a recording held in           *)
(* audio_data (no file list): the Tk handler starts a thread, the thread   *)
(* calls a recognizer and posts the result, the Tk thread shows it.        *)
(* One conversion thread runs at a time.                                   *)
(***************************************************************************)
MaxConversions == 2

Engines == {"google", "whisper"}

\* what a recognizer call does: it returns text, or raises
\* sr.UnknownValueError or sr.RequestError (recognize_google), or another
\* exception (transcribe)
RecognizerResults(engine) ==
    IF engine = "google" THEN {"text", "unknown_value", "request_error"}
    ELSE {"text", "error"}

\* the text the caller posts for the outcome `kind` of a recognition:
\* perform_recognition returns None for every exception and
\* perform_single_conversion posts one text for None; perform_conversion
\* has one except clause per kind
PostedText(app, kind) ==
    IF kind = "none" THEN "transcript"
    ELSE IF app = "main" THEN "conversion_failed"
    ELSE IF kind = "unknown_value" THEN "cannot_recognize"
    ELSE IF kind = "request_error" THEN "network_failed"
    ELSE IF kind = "model_absent" THEN "conversion_failed:whisper_not_loaded"
    ELSE "conversion_failed:error"

\* the fields a conversion leaves alone
cnvRest == <<recVars, fs, impVars, merge_run, cleanup_run, tsVars, fileVars, batchVars, uiVars>>

\* SpeechToTextApp.__init__ loads the model before the window is shown (or
\* fails to); ImprovedSpeechToTextApp loads it in a background thread
InitConvert ==
    /\ InitRec
    /\ InitImp
    /\ imp_microphone = TRUE
    /\ merge_run = NoRun
    /\ cleanup_run = NoCleanup
    /\ \E app \in {"main", "improved"}, loaded \in BOOLEAN :
          /\ app = "improved" => ~loaded
          /\ InitCnvFor(app, loaded)
    /\ InitTs
    /\ InitFiles
    /\ InitBatchVars
    /\ InitUiVars

\* load_in_background: whisper.load_model returns
ImpLoadInBackground ==
    /\ cnv_app = "improved"
    /\ ~whisper_model
    /\ whisper_model' = TRUE
    /\ UNCHANGED <<cnvRest, cnv_app, engine_var, text_result, cnv_pc, cnv_queue,
                   cnv_backend, cnv_told, cnv_count>>

\* the user clicks the other engine radio button
SelectEngine ==
    /\ \E e \in Engines \ {engine_var} : engine_var' = e
    /\ UNCHANGED <<cnvRest, cnv_app, whisper_model, text_result, cnv_pc, cnv_queue,
                   cnv_backend, cnv_told, cnv_count>>

\* upload_audio_file: audio_data = recognizer.record(source)
UploadAudioFile ==
    /\ IF cnv_app = "main"
       THEN /\ audio_data = NoAudio
            /\ audio_data' = PriorAudio
            /\ UNCHANGED imp_audio_data
       ELSE /\ imp_audio_data = NoAudio
            /\ imp_audio_data' = PriorAudio
            /\ UNCHANGED audio_data
    /\ UNCHANGED <<now, is_recording, is_paused, recording_thread, recording_segments,
                   recording_start_time, pause_start_time, total_pause_time,
                   temp_files, fs, ui, ui_queue, lastEvent, disturbed, pc, held, heard, elapsed,
                   imp_is_recording, imp_recording_segments, imp_recording_start_time,
                   imp_microphone, imp_ui_queue, imp_pc, imp_segment_count,
                   imp_silence_count, imp_heard, merge_run, cleanup_run, cnvVars, tsVars, fileVars,
                   batchVars, uiVars>>

\* the engine a conversion runs when the handler has picked `engine`: both
\* perform_recognition and perform_conversion read engine_var again
EngineUsed(engine) == engine_var

\* the lines convert_speech_to_text of ImprovedSpeechToTextApp writes
ImpConvertLines ==
    IF engine_var = "whisper" /\ ~whisper_model
    THEN <<"converting", "whisper_not_loaded_switching_to_google", "engine:google">>
    ELSE <<"converting", IF engine_var = "google" THEN "engine:google" ELSE "engine:whisper">>

\* SpeechToTextApp.convert_speech_to_text, audio_files empty
ConvertSpeechToText ==
    /\ cnv_app = "main"
    /\ cnv_pc # "running"
    /\ cnv_count < MaxConversions
    /\ IF audio_data = NoAudio
       THEN UNCHANGED cnvVars
       ELSE /\ text_result' = <<"converting">>
            /\ cnv_pc' = "running"
            /\ cnv_backend' = "none"
            /\ cnv_told' = FALSE
            /\ cnv_count' = cnv_count + 1
            /\ UNCHANGED <<cnv_app, engine_var, whisper_model, cnv_queue>>
    /\ UNCHANGED cnvRest

\* ImprovedSpeechToTextApp.convert_speech_to_text; the button is disabled
\* until show_result
ImpConvertSpeechToText ==
    /\ cnv_app = "improved"
    /\ cnv_pc # "running" /\ cnv_queue = << >>
    /\ cnv_count < MaxConversions
    /\ IF imp_audio_data = NoAudio
       THEN UNCHANGED cnvVars
       ELSE /\ text_result' = ImpConvertLines
            /\ cnv_told' = (engine_var = "whisper" /\ ~whisper_model)
            /\ cnv_pc' = "running"
            /\ cnv_backend' = "none"
            /\ cnv_count' = cnv_count + 1
            /\ UNCHANGED <<cnv_app, engine_var, whisper_model, cnv_queue>>
    /\ UNCHANGED cnvRest

\* the body of perform_recognition / perform_conversion: the recognizer of
\* the engine is called, and a missing Whisper model raises; the outcome is
\* posted as callback `fn`
Recognize(fn) ==
    \E r \in RecognizerResults(EngineUsed(engine_var)) :
        LET engine == EngineUsed(engine_var)
            absent == engine = "whisper" /\ ~whisper_model
            ok == ~absent /\ r = "text"
            kind == IF absent THEN "model_absent" ELSE IF r = "text" THEN "none" ELSE r
        IN  /\ cnv_backend' = IF absent THEN "none" ELSE engine
            /\ cnv_queue' = Append(cnv_queue,
                                   [fn |-> fn, success |-> ok, kind |-> kind,
                                    text |-> PostedText(cnv_app, kind)])

\* SpeechToTextApp.perform_single_conversion, time stamps and summary off
PerformSingleConversion ==
    /\ cnv_app = "main"
    /\ cnv_pc = "running"
    /\ Recognize("safe_update_result")
    /\ cnv_pc' = "done"
    /\ UNCHANGED <<cnvRest, cnv_app, engine_var, whisper_model, text_result, cnv_told,
                   cnv_count>>

\* ImprovedSpeechToTextApp.perform_conversion
ImpPerformConversion ==
    /\ cnv_app = "improved"
    /\ cnv_pc = "running"
    /\ Recognize("show_result")
    /\ cnv_pc' = "done"
    /\ UNCHANGED <<cnvRest, cnv_app, engine_var, whisper_model, text_result, cnv_told,
                   cnv_count>>

\* the Tk thread runs the posted safe_update_result / show_result: the widget
\* is cleared and the text inserted
CnvRunPosted ==
    /\ cnv_queue # << >>
    /\ text_result' = <<Head(cnv_queue).text>>
    /\ cnv_queue' = Tail(cnv_queue)
    /\ UNCHANGED <<cnvRest, cnv_app, engine_var, whisper_model, cnv_pc, cnv_backend,
                   cnv_told, cnv_count>>

NextConvert ==
    \/ ImpLoadInBackground
    \/ SelectEngine
    \/ UploadAudioFile
    \/ ConvertSpeechToText
    \/ ImpConvertSpeechToText
    \/ PerformSingleConversion
    \/ ImpPerformConversion
    \/ CnvRunPosted

SpecConvert == InitConvert /\ [][NextConvert]_vars

(***************************************************************************)
(* Time stamps (SpeechToTextApp).  Times are in half seconds, so that a    *)
(* segment can start between two seconds.                                  *)
(***************************************************************************)
NoStamp == << >>

\* a format without the hours
format_minutes_only(t) ==
    LET total_seconds == t \div 2
    IN  <<(total_seconds % 3600) \div 60, total_seconds % 60>>

\* format_timestamp: int(seconds), then [MM:SS], or [HH:MM:SS] from one hour on
format_timestamp(t) ==
    LET total_seconds == t \div 2
        hours == total_seconds \div 3600
        minutes == (total_seconds % 3600) \div 60
        secs == total_seconds % 60
    IN  IF hours > 0 THEN <<hours, minutes, secs>> ELSE <<minutes, secs>>

\* `not text`: None and the empty string are false
Falsy(text) == text.none \/ text.lines = << >>

\* str.strip() on the texts of the model
Strip(x) == IF x = " " THEN "" ELSE IF x = " a" THEN "a" ELSE x

\* split_into_sentences: the pieces between the punctuation marks that are
\* not empty
split_into_sentences(text) == SelectSeq(text.lines, LAMBDA l : Strip(l.text) \notin {"", "."})

\* the alphabetic words text.split() finds in a piece: "long" stands for a
\* sentence of 50 English words, no piece has Chinese characters
EnglishWords(x) == IF x = "long" THEN 50 ELSE IF x \in {"a", " a", "b"} THEN 1 ELSE 0

RECURSIVE WordCount(_)
WordCount(lines) ==
    IF lines = << >> THEN 0 ELSE EnglishWords(Head(lines).text) + WordCount(Tail(lines))

\* get_estimated_speech_duration: max(words / 150 * 60, 10) seconds, in half
\* seconds; the texts of the model have none or a multiple of 50 long words,
\* so that the durations are whole
get_estimated_speech_duration(text) ==
    LET english_duration == (WordCount(text.lines) * 4) \div 5
    IN  IF english_duration > 20 THEN english_duration ELSE 20

\* a loop that advances by the whole duration after each sentence
WholeDuration(total_duration, n) == total_duration

\* time_per_sentence = total_duration / len(sentences)
time_per_sentence(total_duration, n) == total_duration \div n

\* add_timestamps_to_text: the sentences, each with the stamp of its
\* estimated start
add_timestamps_to_text(text, start_time, enabled) ==
    IF Falsy(text) \/ ~enabled THEN text
    ELSE LET sentences == split_into_sentences(text)
             per == time_per_sentence(get_estimated_speech_duration(text), Len(sentences))
         IN  IF sentences = << >> THEN text
             ELSE Str([k \in 1..Len(sentences) |->
                          [stamp |-> format_timestamp(start_time + (k - 1) * per),
                           text |-> Strip(sentences[k].text)]])

\* a loop that stamps every line with the start of the file
ExactLinesNoOffset(segments, start_time) ==
    LET kept == SelectSeq(segments, LAMBDA g : Strip(g.text) # "")
    IN  Str([k \in 1..Len(kept) |->
                [stamp |-> format_timestamp(start_time), text |-> Strip(kept[k].text)]])

\* the loop of get_whisper_timestamps over result["segments"] and the join
ExactLines(segments, start_time) ==
    LET kept == SelectSeq(segments, LAMBDA g : Strip(g.text) # "")
    IN  Str([k \in 1..Len(kept) |->
                [stamp |-> format_timestamp(start_time + kept[k].start),
                 text |-> Strip(kept[k].text)]])

\* what get_whisper_timestamps returns when the exact path raised: the
\* estimate over the text of a second perform_recognition
ExactFailed(o, start_time, enabled) == add_timestamps_to_text(o.again, start_time, enabled)

\* get_whisper_timestamps(audio_data, start_time), where Whisper does o.exact
\* ("segments": transcribe returns o.segments, "raise": the model is absent or
\* an exception is raised) and a second perform_recognition returns o.again
get_whisper_timestamps(start_time, o, enabled) ==
    IF o.exact = "raise" THEN ExactFailed(o, start_time, enabled)
    ELSE ExactLines(o.segments, start_time)

\* the formatted text of a recognized text with time stamps enabled, as
\* process_batch_conversion and perform_single_conversion compute it
Synthesize(text, start_time, engine, o) ==
    IF engine = "whisper"
    THEN IF o.loaded THEN get_whisper_timestamps(start_time, o, TRUE)
         ELSE add_timestamps_to_text(text, start_time, TRUE)
    ELSE add_timestamps_to_text(text, start_time, TRUE)

(***************************************************************************)
(* One synthesis with the Whisper engine: the inputs are drawn at the      *)
(* start, the synthesis is one step.                                       *)
(***************************************************************************)
MaxNative == 2

\* the texts perform_recognition returns (truthy ones reach the synthesis)
RawLine(x) == [stamp |-> NoStamp, text |-> x]
RecognizedTexts == {Str(<<RawLine("a")>>), Str(<<RawLine("a"), RawLine("b")>>),
                    Str(<<RawLine(".")>>), Str(<<RawLine("long")>>),
                    Str(<<RawLine("long"), RawLine(" "), RawLine("long")>>)}

\* start offsets: 0, 30.5 s, 59 min 59.5 s
StartTimes == {0, 61, 7199}

\* native segments: start within the file (0, 0.5 s, 1.5 s) and text
NativeSegments == [start : {0, 1, 3}, text : {" ", " a", "b"}]
SegmentLists == UNION {[1..n -> NativeSegments] : n \in 0..MaxNative}

\* what Whisper and the second recognition do
ExactEnvs ==
    {[exact |-> "segments", segments |-> g, again |-> None, loaded |-> TRUE] : g \in SegmentLists}
    \cup {[exact |-> "raise", segments |-> << >>, again |-> a, loaded |-> l] :
              a \in RecognizedTexts \cup {None}, l \in BOOLEAN}

InitStamps ==
    /\ InitRec
    /\ InitImp
    /\ imp_microphone = TRUE
    /\ merge_run = NoRun
    /\ cleanup_run = NoCleanup
    /\ InitCnv
    /\ \E text \in RecognizedTexts, st \in StartTimes, o \in ExactEnvs :
          ts_in = [text |-> text, start_time |-> st, exact |-> o.exact,
                   segments |-> o.segments, again |-> o.again, loaded |-> o.loaded]
    /\ ts_out = None
    /\ ts_state = "ready"
    /\ InitFiles
    /\ InitBatchVars
    /\ InitUiVars

\* the synthesis of perform_single_conversion / process_batch_conversion for
\* the Whisper engine
RunSynthesis ==
    /\ ts_state = "ready"
    /\ ts_out' = Synthesize(ts_in.text, ts_in.start_time, "whisper", ts_in)
    /\ ts_state' = "done"
    /\ UNCHANGED <<recVars, fs, impVars, merge_run, cleanup_run, cnvVars, fileVars, batchVars, uiVars, ts_in>>

NextStamps == RunSynthesis

SpecStamps == InitStamps /\ [][NextStamps]_vars

(***************************************************************************)
(* The list of audio files of SpeechToTextApp and the handlers of its      *)
(* buttons.  update_file_list rebuilds the Treeview, which drops the       *)
(* selection; move_up and move_down select the moved row again.            *)
(***************************************************************************)
MaxFiles == 3

Paths == {"d1/a.wav", "d2/a.wav", "d1/b.mp3"}

\* os.path.basename
basename(path) == IF path = "d1/b.mp3" THEN "b.mp3" ELSE "a.wav"

\* the non-empty tuples of paths askopenfilenames can return
PathLists == UNION {[1..n -> Paths] : n \in 1..2}

filesRest == <<recVars, fs, impVars, merge_run, cleanup_run, cnvVars, tsVars, batchVars, uiVars>>

\* the renumbering that leaves the order fields as they are
KeepOrderNumbers(files) == files

\* update_order_numbers: file_info['order'] = i + 1
update_order_numbers(files) == [i \in 1..Len(files) |-> [files[i] EXCEPT !.order = i]]

RECURSIVE AppendFiles(_, _)
\* the loop of add_audio_files: order = len(self.audio_files) + 1, append
AppendFiles(files, paths) ==
    IF paths = << >> THEN files
    ELSE AppendFiles(Append(files, [path |-> Head(paths), name |-> basename(Head(paths)),
                                    order |-> Len(files) + 1]),
                     Tail(paths))

\* get_selected_item: the position (from 1, 0 for None) of the first entry
\* with the name and path of the selected row
get_selected_item ==
    IF selection = 0 \/ selection > Len(audio_files) THEN 0
    ELSE LET row == audio_files[selection]
             hits == {i \in 1..Len(audio_files) :
                         audio_files[i].name = row.name /\ audio_files[i].path = row.path}
         IN  CHOOSE i \in hits : \A j \in hits : i <= j

\* the entries at positions i and j exchanged
Swap(files, i, j) == [files EXCEPT ![i] = files[j], ![j] = files[i]]

\* the user clicks a row of file_tree
SelectRow ==
    /\ \E r \in 1..Len(audio_files) : r # selection /\ selection' = r
    /\ UNCHANGED <<filesRest, audio_files, current_processing_index, file_op>>

\* add_audio_files with a non-empty choice of files
AddAudioFiles ==
    /\ \E paths \in PathLists :
          /\ Len(audio_files) + Len(paths) <= MaxFiles
          /\ audio_files' = AppendFiles(audio_files, paths)
    /\ selection' = 0
    /\ file_op' = "add"
    /\ UNCHANGED <<filesRest, current_processing_index>>

\* clear_audio_files: self.audio_files = [], a new list
ClearAudioFiles ==
    /\ audio_files' = << >>
    /\ current_processing_index' = 0
    /\ selection' = 0
    /\ file_op' = "clear"
    /\ batch_alias' = FALSE
    /\ batch_list' = IF batch_alias THEN audio_files ELSE batch_list
    /\ UNCHANGED <<recVars, fs, impVars, merge_run, cleanup_run, cnvVars, tsVars, uiVars,
                   enable_timestamps, total_elapsed_time, all_text, total_files, batch_i,
                   batch_pc, batch_queue, batch_started>>

MoveUp ==
    /\ LET index == get_selected_item
       IN  IF index = 0 \/ index = 1
           THEN UNCHANGED <<audio_files, selection>>
           ELSE /\ audio_files' = update_order_numbers(Swap(audio_files, index, index - 1))
                /\ selection' = index - 1
    /\ file_op' = "move_up"
    /\ UNCHANGED <<filesRest, current_processing_index>>

MoveDown ==
    /\ LET index == get_selected_item
       IN  IF index = 0 \/ index = Len(audio_files)
           THEN UNCHANGED <<audio_files, selection>>
           ELSE /\ audio_files' = update_order_numbers(Swap(audio_files, index, index + 1))
                /\ selection' = index + 1
    /\ file_op' = "move_down"
    /\ UNCHANGED <<filesRest, current_processing_index>>

\* remove_selected; the user answers the confirmation with yes or no
RemoveSelected ==
    /\ LET index == get_selected_item
       IN  \E yes \in BOOLEAN :
              IF index = 0 \/ ~yes
              THEN UNCHANGED <<audio_files, selection>>
              ELSE /\ audio_files' = update_order_numbers(
                          SelectSeq([i \in 1..Len(audio_files) |->
                                        [audio_files[i] EXCEPT !.order = IF i = index THEN 0 ELSE i]],
                                    LAMBDA f : f.order # 0))
                   /\ selection' = 0
    /\ file_op' = "remove"
    /\ UNCHANGED <<filesRest, current_processing_index>>

NextFiles ==
    \/ SelectRow
    \/ AddAudioFiles
    \/ ClearAudioFiles
    \/ MoveUp
    \/ MoveDown
    \/ RemoveSelected

InitFileList ==
    /\ InitRec
    /\ InitImp
    /\ imp_microphone = TRUE
    /\ merge_run = NoRun
    /\ InitExt

SpecFiles == InitFileList /\ [][NextFiles]_vars

(***************************************************************************)
(* Batch conversion (SpeechToTextApp): batch_convert_files starts a thread *)
(* that runs process_batch_conversion over audio_files; one iteration of   *)
(* its loop is one step.  SpecBatchEdit lets the user edit the list while  *)
(* the loop runs; SpecBatch does not.                                      *)
(***************************************************************************)
\* len(AudioSegment.from_file(path)) of the files, in half seconds: 30 s, 45 s, 20 s
DurationOf(path) ==
    IF path = "d1/a.wav" THEN 60 ELSE IF path = "d2/a.wav" THEN 90 ELSE 40

\* the files convert_single_file decodes with AudioSegment.from_file, as
\* get_audio_duration does for every file
DecodedByPydub(path) == path = "d1/b.mp3"

\* what the environment does to one file: whether convert_single_file loads
\* it, what perform_recognition returns, whether get_audio_duration reads
\* it, and what the exact time stamp path does
BatchText == Str(<<RawLine("a")>>)

BatchExactEnvs ==
    {[exact |-> "segments", segments |-> g, again |-> None, loaded |-> TRUE] :
         g \in {<< >>, <<[start |-> 1, text |-> "b"]>>}}
    \cup {[exact |-> "raise", segments |-> << >>, again |-> a, loaded |-> l] :
              a \in {BatchText, None}, l \in BOOLEAN}

FileEnvs(path) ==
    {e \in [decode_ok : BOOLEAN, rec : {BatchText, None}, probe_ok : BOOLEAN,
            o : BatchExactEnvs] :
        /\ (DecodedByPydub(path) /\ ~e.probe_ok) => ~e.decode_ok
        /\ (engine_var = "whisper" /\ ~whisper_model) =>
               (e.rec = None /\ e.o.exact = "raise" /\ e.o.again = None)
        /\ (engine_var = "google" \/ ~enable_timestamps) => e.o = CHOOSE x \in BatchExactEnvs : TRUE}

\* convert_single_file: the recognized text, None when loading or
\* recognition fails
convert_single_file(e) == IF e.decode_ok THEN e.rec ELSE None

\* a file's duration as the loop adds it: get_audio_duration returns 0 when it
\* cannot read the file
get_audio_duration(path, e) == IF e.probe_ok THEN DurationOf(path) ELSE 0

\* the section of a file: title (with the offset), body, and whether it is
\* the failure placeholder
Section(k, path, offset, failed, body) ==
    [file |-> k, path |-> path, offset |-> offset, failed |-> failed, body |-> body]

\* the list object the loop of process_batch_conversion iterates: move_up,
\* move_down and remove_selected change self.audio_files in place,
\* clear_audio_files and reset_all bind the field to a new list
IteratedList == IF batch_alias THEN audio_files ELSE batch_list

\* self.audio_files = []
Rebind ==
    /\ batch_alias' = FALSE
    /\ batch_list' = IteratedList

iterVars == <<batch_alias, batch_list, batch_started>>

batchRest == <<recVars, fs, impVars, merge_run, cleanup_run, tsVars, fileVars, uiVars, cnv_app, engine_var,
               whisper_model, cnv_pc, cnv_queue, cnv_backend, cnv_told, cnv_count>>

\* batch_convert_files
BatchConvertFiles ==
    /\ batch_pc = "idle"
    /\ IF audio_files = << >>
       THEN UNCHANGED batch_pc
       ELSE batch_pc' = "started"
    /\ UNCHANGED <<batchRest, text_result, enable_timestamps, total_elapsed_time, all_text,
                   total_files, batch_i, batch_queue, iterVars>>

\* process_batch_conversion up to the loop
BatchBegin ==
    /\ batch_pc = "started"
    /\ all_text' = << >>
    /\ total_files' = Len(audio_files)
    /\ total_elapsed_time' = 0
    /\ batch_i' = 1
    /\ batch_pc' = "running"
    /\ batch_alias' = TRUE
    /\ batch_list' = << >>
    /\ batch_started' = audio_files
    /\ UNCHANGED <<batchRest, text_result, enable_timestamps, batch_queue>>

\* one iteration of the loop.  section_title + formatted_text raises
\* TypeError when formatted_text is None, which ends the loop in the outer
\* except clause
BatchFile ==
    /\ batch_pc = "running"
    /\ batch_i <= Len(IteratedList)
    /\ \E e \in FileEnvs(IteratedList[batch_i].path) :
          LET text == convert_single_file(e)
              path == IteratedList[batch_i].path
              file_duration == get_audio_duration(path, e)
              formatted_text ==
                  IF enable_timestamps
                  THEN Synthesize(text, total_elapsed_time, engine_var, e.o)
                  ELSE text
          IN  IF ~Falsy(text) /\ formatted_text.none
              THEN /\ batch_pc' = "aborted"
                   /\ batch_queue' = Append(batch_queue,
                          [fn |-> "update_record_status", text |-> "batch_failed"])
                   /\ UNCHANGED <<all_text, total_elapsed_time, batch_i>>
              ELSE /\ all_text' = Append(all_text,
                          IF Falsy(text)
                          THEN Section(batch_i, path, total_elapsed_time, TRUE, None)
                          ELSE Section(batch_i, path, total_elapsed_time, FALSE, formatted_text))
                   /\ total_elapsed_time' = total_elapsed_time + file_duration
                   /\ batch_i' = batch_i + 1
                   /\ batch_queue' = Append(batch_queue,
                          [fn |-> "update_record_status", text |-> "processing"])
                   /\ UNCHANGED batch_pc
    /\ current_processing_index' = batch_i - 1
    /\ UNCHANGED <<recVars, fs, impVars, merge_run, cleanup_run, tsVars, cnvVars, uiVars, audio_files,
                   selection, file_op, enable_timestamps, total_files, iterVars>>

\* after the loop: the joined sections are posted to the result display
BatchFinish ==
    /\ batch_pc = "running"
    /\ batch_i > Len(IteratedList)
    /\ batch_queue' = batch_queue \o <<[fn |-> "safe_update_result", text |-> "final_text"],
                                       [fn |-> "update_record_status", text |-> "batch_done"]>>
    /\ batch_pc' = "done"
    /\ UNCHANGED <<batchRest, text_result, enable_timestamps, total_elapsed_time, all_text,
                   total_files, batch_i, iterVars>>

\* the Tk thread runs the first posted callback: safe_update_result,
\* update_record_status, or one of the lambdas of reset_all
BatchRunPosted ==
    /\ batch_queue # << >>
    /\ text_result' = IF Head(batch_queue).fn = "safe_update_result"
                      THEN <<Head(batch_queue).text>>
                      ELSE IF Head(batch_queue).fn = "text_result.delete" THEN << >>
                      ELSE text_result
    /\ IF Head(batch_queue).fn = "clear_audio_files"
       THEN /\ audio_files' = << >>
            /\ current_processing_index' = 0
            /\ selection' = 0
            /\ file_op' = "clear"
            /\ Rebind
       ELSE UNCHANGED <<fileVars, batch_alias, batch_list>>
    /\ batch_queue' = Tail(batch_queue)
    /\ UNCHANGED <<recVars, fs, impVars, merge_run, cleanup_run, tsVars, uiVars, cnv_app, engine_var,
                   whisper_model, cnv_pc, cnv_queue, cnv_backend, cnv_told, cnv_count,
                   enable_timestamps, total_elapsed_time, all_text, total_files,
                   batch_i, batch_pc, batch_started>>

\* reset_all while a batch conversion runs: the fields are reset, the file
\* list and the accumulated time among them, the temporary files are
\* cleaned up, and the display updates are posted
BatchResetAll ==
    /\ ResetAll
    /\ audio_files' = << >>
    /\ Rebind
    /\ current_processing_index' = 0
    /\ total_elapsed_time' = 0
    /\ batch_queue' = batch_queue \o <<[fn |-> "update_record_status", text |-> "reset"],
                                       [fn |-> "clear_audio_files", text |-> None],
                                       [fn |-> "text_result.delete", text |-> None]>>
    /\ UNCHANGED <<impVars, merge_run, cleanup_run, tsVars, cnvVars, uiVars, selection, file_op,
                   enable_timestamps, all_text, total_files, batch_i, batch_pc,
                   batch_started>>

NextBatch ==
    \/ BatchConvertFiles
    \/ BatchBegin
    \/ BatchFile
    \/ BatchFinish
    \/ BatchRunPosted

\* a file list has been put together, an engine chosen and the time stamp
\* option set
InitBatch ==
    /\ InitRec
    /\ InitImp
    /\ imp_microphone = TRUE
    /\ merge_run = NoRun
    /\ cleanup_run = NoCleanup
    /\ InitTs
    /\ \E loaded \in BOOLEAN, e \in Engines :
          /\ cnv_app = "main"
          /\ engine_var = e
          /\ whisper_model = loaded
    /\ text_result = << >>
    /\ cnv_pc = "none"
    /\ cnv_queue = << >>
    /\ cnv_backend = "none"
    /\ cnv_told = FALSE
    /\ cnv_count = 0
    /\ \E n \in 1..MaxFiles : \E paths \in [1..n -> Paths] :
          audio_files = AppendFiles(<< >>, paths)
    /\ current_processing_index = 0
    /\ selection = 0
    /\ file_op = "add"
    /\ enable_timestamps \in BOOLEAN
    /\ total_elapsed_time = 0
    /\ all_text = << >>
    /\ total_files = 0
    /\ batch_i = 0
    /\ batch_pc = "idle"
    /\ batch_queue = << >>
    /\ batch_alias = FALSE
    /\ batch_list = << >>
    /\ batch_started = << >>
    /\ InitUiVars

SpecBatch == InitBatch /\ [][NextBatch]_vars

\* the coordinator selects rows and then edits the file list, or resets,
\* while the worker iterates: one edit in a run (file_op is still that of
\* the list's construction and the list has not been replaced)
BatchEdit ==
    /\ batch_pc = "running"
    /\ file_op = "add"
    /\ batch_alias
    /\ \/ SelectRow
       \/ MoveUp
       \/ MoveDown
       \/ RemoveSelected
       \/ ClearAudioFiles
       \/ BatchResetAll

NextBatchEdit ==
    \/ NextBatch
    \/ BatchEdit

\* a batch with the Google engine and time stamps
InitBatchEdit ==
    /\ InitBatch
    /\ engine_var = "google"
    /\ ~whisper_model
    /\ enable_timestamps

SpecBatchEdit == InitBatchEdit /\ [][NextBatchEdit]_vars

(***************************************************************************)
(* SpeechToTextApp with record_mode_var = "single": the capture thread     *)
(* runs record_audio and then single_recording.  The controller is the     *)
(* one above; every read of a shared field is a step of its own.           *)
(***************************************************************************)
singleRest == <<lastEvent, recording_segments, audio_data, temp_files, fs, heard, elapsed>>

\* record_audio: adjust_for_ambient_noise works and single_recording is
\* entered, or it raises and the error box and stop_recording are posted
SingleAdjust(t) ==
    /\ pc[t] = "adjust"
    /\ \/ /\ pc' = [pc EXCEPT ![t] = "wait"]
          /\ UNCHANGED ui_queue
       \/ /\ pc' = [pc EXCEPT ![t] = "done"]
          /\ ui_queue' = ui_queue \o <<"showerror", "stop_recording">>
    /\ UNCHANGED <<thrRest, singleRest, disturbed, held>>

\* while self.is_recording and self.is_paused: time.sleep(0.1)
SingleWait(t) ==
    /\ pc[t] = "wait"
    /\ ~(is_recording /\ is_paused)
    /\ pc' = [pc EXCEPT ![t] = "check"]
    /\ UNCHANGED <<thrRest, singleRest, disturbed, held, ui_queue>>

\* if not self.is_recording: return
SingleCheck(t) ==
    /\ pc[t] = "check"
    /\ pc' = [pc EXCEPT ![t] = IF ~is_recording THEN "done" ELSE "listen"]
    /\ disturbed' = disturbed \ {t}
    /\ UNCHANGED <<thrRest, singleRest, held, ui_queue>>

\* listen() returns the utterance
SingleListenChunk(t) ==
    /\ pc[t] = "listen"
    /\ heard < MaxChunks
    /\ \E d \in ListenDurations : held' = [held EXCEPT ![t] = <<Chunk(t, heard + 1, d)>>]
    /\ heard' = heard + 1
    /\ pc' = [pc EXCEPT ![t] = "got"]
    /\ UNCHANGED <<thrRest, lastEvent, disturbed, recording_segments, audio_data,
                   temp_files, fs, ui_queue, elapsed>>

\* listen() raises sr.WaitTimeoutError
SingleListenTimeout(t) ==
    /\ pc[t] = "listen"
    /\ pc' = [pc EXCEPT ![t] = "timeout"]
    /\ lastEvent' = Event("wait_timeout", TRUE)
    /\ disturbed' = disturbed \ {t}
    /\ UNCHANGED <<thrRest, recording_segments, audio_data, temp_files, fs, ui_queue,
                   held, heard, elapsed>>

\* except sr.WaitTimeoutError: if self.is_recording: the status and
\* stop_recording are posted
SingleTimeout(t) ==
    /\ pc[t] = "timeout"
    /\ ui_queue' = IF is_recording
                   THEN ui_queue \o <<"update_record_status", "stop_recording">>
                   ELSE ui_queue
    /\ pc' = [pc EXCEPT ![t] = "done"]
    /\ UNCHANGED <<thrRest, singleRest, disturbed, held>>

\* listen() raises another exception, which record_audio catches
SingleListenError(t) ==
    /\ pc[t] = "listen"
    /\ pc' = [pc EXCEPT ![t] = "done"]
    /\ lastEvent' = Event("listen_error", TRUE)
    /\ disturbed' = disturbed \ {t}
    /\ ui_queue' = ui_queue \o <<"showerror", "stop_recording">>
    /\ UNCHANGED <<thrRest, recording_segments, audio_data, temp_files, fs, held, heard, elapsed>>

\* if self.is_recording ...
SingleGot(t) ==
    /\ pc[t] = "got"
    /\ IF is_recording
       THEN /\ pc' = [pc EXCEPT ![t] = "got2"]
            /\ UNCHANGED <<held, disturbed>>
       ELSE /\ pc' = [pc EXCEPT ![t] = "done"]
            /\ held' = [held EXCEPT ![t] = << >>]
            /\ disturbed' = disturbed \ {t}
    /\ UNCHANGED <<thrRest, singleRest, ui_queue>>

\* ... and not self.is_paused:
SingleGot2(t) ==
    /\ pc[t] = "got2"
    /\ IF ~is_paused
       THEN /\ pc' = [pc EXCEPT ![t] = "keep"]
            /\ UNCHANGED <<held, disturbed>>
       ELSE /\ pc' = [pc EXCEPT ![t] = "done"]
            /\ held' = [held EXCEPT ![t] = << >>]
            /\ disturbed' = disturbed \ {t}
    /\ UNCHANGED <<thrRest, singleRest, ui_queue>>

\* self.audio_data = audio; self.root.after(0, self.stop_recording)
SingleKeep(t) ==
    /\ pc[t] = "keep"
    /\ audio_data' = held[t]
    /\ held' = [held EXCEPT ![t] = << >>]
    /\ disturbed' = disturbed \ {t}
    /\ ui_queue' = Append(ui_queue, "stop_recording")
    /\ pc' = [pc EXCEPT ![t] = "done"]
    /\ UNCHANGED <<thrRest, lastEvent, recording_segments, temp_files, fs, heard, elapsed>>

SingleStep(t) ==
    \/ SingleAdjust(t)
    \/ SingleWait(t)
    \/ SingleCheck(t)
    \/ SingleListenChunk(t)
    \/ SingleListenTimeout(t)
    \/ SingleTimeout(t)
    \/ SingleListenError(t)
    \/ SingleGot(t)
    \/ SingleGot2(t)
    \/ SingleKeep(t)

\* the Tk thread runs a posted status update or error box
SingleRunShown ==
    /\ ui = "idle"
    /\ ui_queue # << >>
    /\ Head(ui_queue) # "stop_recording"
    /\ ui_queue' = Tail(ui_queue)
    /\ UNCHANGED <<now, is_recording, is_paused, recording_thread, recording_segments,
                   recording_start_time, pause_start_time, total_pause_time,
                   audio_data, temp_files, fs, ui, lastEvent, disturbed, pc, held, heard, elapsed>>

SingleNext ==
    /\ \/ StartRecording
       \/ PauseRecording
       \/ ResumeRecording
       \/ StopRecording
       \/ RunPosted
       \/ SingleRunShown
       \/ StopJoinReturn
       \/ \E t \in Threads : SingleStep(t)
    /\ UNCHANGED <<impVars, merge_run, extVars>>

SpecSingle == Init /\ [][SingleNext]_vars

\* the threads and the Tk event loop keep running, and a paused session is
\* resumed; the user's other calls may or may not come
SingleFairness ==
    LET others == UNCHANGED <<impVars, merge_run, extVars>>
    IN  /\ \A t \in Threads : SF_vars(SingleStep(t) /\ others)
        /\ WF_vars(RunPosted /\ others)
        /\ WF_vars(SingleRunShown /\ others)
        /\ WF_vars(StopJoinReturn /\ others)
        /\ WF_vars(ResumeRecording /\ ResumeAllowed /\ others)

SpecSingleFair == SpecSingle /\ SingleFairness

(***************************************************************************)
(* One worker thread and the Tk thread: the worker is background_task of   *)
(* test_ui_thread_safety, or record_audio or load_file of                  *)
(* ImprovedSpeechToTextApp.  root.after(0, f) puts f on a queue that the   *)
(* Tk thread runs in order; a call on a widget or a message box made by    *)
(* the worker itself is logged with by = "worker".                         *)
(***************************************************************************)
\* for i in range(5)
Steps == 5

UiWorkers == {"background_task", "record_audio", "load_file", "main_record_audio"}

Call(fn, arg) == [fn |-> fn, arg |-> arg]

\* root.after(0, ...) for each of the calls, in order
Post(calls) ==
    /\ ui_after' = ui_after \o calls
    /\ ui_sent' = ui_sent \o calls

\* the worker makes the call itself
Direct(call) == ui_log' = Append(ui_log, [call |-> call, by |-> "worker"])

uiRest == <<recVars, fs, impVars, merge_run, cleanup_run, cnvVars, tsVars, fileVars, batchVars>>

\* background_task: root.after(0, safe_update_status, status_text)
BgPostStatus ==
    /\ ui_kind = "background_task"
    /\ ui_wpc = "status"
    /\ Post(<<Call("safe_update_status", ui_i + 1)>>)
    /\ ui_wpc' = "result"
    /\ UNCHANGED <<uiRest, ui_kind, ui_i, ui_log>>

\* background_task: after the sleep, root.after(0, lambda ...); next i
BgPostResult ==
    /\ ui_kind = "background_task"
    /\ ui_wpc = "result"
    /\ Post(<<Call("safe_update_result", ui_i + 1)>>)
    /\ ui_i' = ui_i + 1
    /\ ui_wpc' = IF ui_i + 1 < Steps THEN "status" ELSE "final"
    /\ UNCHANGED <<uiRest, ui_kind, ui_log>>

\* background_task: the two final updates
BgFinal ==
    /\ ui_kind = "background_task"
    /\ ui_wpc = "final"
    /\ Post(<<Call("safe_update_status", "finished"), Call("safe_update_result", "finished")>>)
    /\ ui_wpc' = "done"
    /\ UNCHANGED <<uiRest, ui_kind, ui_i, ui_log>>

\* except Exception of record_audio: messagebox.showerror(...) is called in
\* the worker, then stop_recording is posted
RecFailed ==
    /\ Direct(Call("showerror", "record_failed"))
    /\ Post(<<Call("stop_recording", "none")>>)
    /\ ui_wpc' = "done"

\* record_audio: adjust_for_ambient_noise returns, and the mode chosen with
\* the radio buttons is entered, or it raises
UiRecAdjust ==
    /\ ui_kind = "record_audio"
    /\ ui_wpc = "adjust"
    /\ \/ /\ ui_wpc' \in {"loop", "listen"}
          /\ UNCHANGED <<ui_after, ui_sent, ui_log>>
       \/ RecFailed
    /\ UNCHANGED <<uiRest, ui_kind, ui_i>>

\* continuous_recording, one turn of the loop (ui_i is segment_count):
\* listen() returns a segment and the status is posted; or the silence
\* limit is reached after a segment and stop_recording is posted; or
\* is_recording is found false
UiRecLoop ==
    /\ ui_kind = "record_audio"
    /\ ui_wpc = "loop"
    /\ \/ /\ ui_i < MaxChunks
          /\ Post(<<Call("record_status.config", ui_i + 1)>>)
          /\ ui_i' = ui_i + 1
          /\ UNCHANGED ui_wpc
       \/ /\ ui_i > 0
          /\ Post(<<Call("stop_recording", "none")>>)
          /\ ui_wpc' = "exit"
          /\ UNCHANGED ui_i
       \/ /\ ui_wpc' = "exit"
          /\ UNCHANGED <<ui_i, ui_after, ui_sent>>
    /\ UNCHANGED <<uiRest, ui_kind, ui_log>>

\* continuous_recording after the loop: with segments the status is posted
\* and merge_audio_segments posts its own; without, "no audio" is posted
UiRecExit ==
    /\ ui_kind = "record_audio"
    /\ ui_wpc = "exit"
    /\ IF ui_i > 0
       THEN Post(<<Call("record_status.config", "processing"),
                   Call("record_status.config", "complete")>>)
       ELSE Post(<<Call("record_status.config", "no_audio")>>)
    /\ ui_wpc' = "done"
    /\ UNCHANGED <<uiRest, ui_kind, ui_i, ui_log>>

\* load_file of upload_audio_file: the file is loaded or not
UiLoadFile ==
    /\ ui_kind = "load_file"
    /\ ui_wpc = "load"
    /\ \/ Post(<<Call("file_label.config", "loaded"), Call("showinfo", "loaded")>>)
       \/ Post(<<Call("file_label.config", "load_failed"), Call("showerror", "load_failed")>>)
    /\ ui_wpc' = "done"
    /\ UNCHANGED <<uiRest, ui_kind, ui_i, ui_log>>

\* single_recording: listen() returns, raises WaitTimeoutError, or raises
\* another exception, which record_audio catches
UiRecListen ==
    /\ ui_kind = "record_audio"
    /\ ui_wpc = "listen"
    /\ \/ /\ Post(<<Call("stop_recording", "none"), Call("record_status.config", "complete")>>)
          /\ ui_wpc' = "done"
          /\ UNCHANGED ui_log
       \/ /\ Post(<<Call("record_status.config", "timeout"), Call("stop_recording", "none")>>)
          /\ ui_wpc' = "done"
          /\ UNCHANGED ui_log
       \/ RecFailed
    /\ UNCHANGED <<uiRest, ui_kind, ui_i>>

\* except Exception of SpeechToTextApp.record_audio: the error box and
\* stop_recording are posted
MainRecFailed ==
    /\ Post(<<Call("showerror", "record_failed"), Call("stop_recording", "none")>>)
    /\ ui_wpc' = "done"
    /\ UNCHANGED ui_log

\* SpeechToTextApp.record_audio: adjust_for_ambient_noise returns and the
\* mode chosen is entered, or it raises
UiMainAdjust ==
    /\ ui_kind = "main_record_audio"
    /\ ui_wpc = "adjust"
    /\ \/ /\ ui_wpc' \in {"loop", "listen"}
          /\ UNCHANGED <<ui_after, ui_sent, ui_log>>
       \/ MainRecFailed
    /\ UNCHANGED <<uiRest, ui_kind, ui_i>>

\* SpeechToTextApp.continuous_recording, one turn of the loop (ui_i is
\* segment_count): a segment is appended and the status posted, or
\* is_recording is found false
UiMainLoop ==
    /\ ui_kind = "main_record_audio"
    /\ ui_wpc = "loop"
    /\ \/ /\ ui_i < MaxChunks
          /\ Post(<<Call("update_record_status", ui_i + 1)>>)
          /\ ui_i' = ui_i + 1
          /\ UNCHANGED ui_wpc
       \/ /\ ui_wpc' = "exit"
          /\ UNCHANGED <<ui_i, ui_after, ui_sent>>
    /\ UNCHANGED <<uiRest, ui_kind, ui_log>>

\* SpeechToTextApp.continuous_recording after the loop: with segments
\* merge_audio_segments posts its status or returns with a print only;
\* without segments nothing is done
UiMainExit ==
    /\ ui_kind = "main_record_audio"
    /\ ui_wpc = "exit"
    /\ IF ui_i > 0
       THEN \/ Post(<<Call("update_record_status", "complete")>>)
            \/ UNCHANGED <<ui_after, ui_sent>>
       ELSE UNCHANGED <<ui_after, ui_sent>>
    /\ ui_wpc' = "done"
    /\ UNCHANGED <<uiRest, ui_kind, ui_i, ui_log>>

\* SpeechToTextApp.single_recording: listen() returns and the flags let the
\* utterance be kept, or they do not; or it raises WaitTimeoutError while
\* recording, or after the stop; or it raises another exception
UiMainListen ==
    /\ ui_kind = "main_record_audio"
    /\ ui_wpc = "listen"
    /\ \/ /\ Post(<<Call("stop_recording", "none")>>)
          /\ ui_wpc' = "done"
          /\ UNCHANGED ui_log
       \/ /\ Post(<<Call("update_record_status", "timeout"), Call("stop_recording", "none")>>)
          /\ ui_wpc' = "done"
          /\ UNCHANGED ui_log
       \/ /\ ui_wpc' = "done"
          /\ UNCHANGED <<ui_after, ui_sent, ui_log>>
       \/ MainRecFailed
    /\ UNCHANGED <<uiRest, ui_kind, ui_i>>

\* the Tk thread runs the first posted callback
UiRunPosted ==
    /\ ui_after # << >>
    /\ ui_log' = Append(ui_log, [call |-> Head(ui_after), by |-> "tk"])
    /\ ui_after' = Tail(ui_after)
    /\ UNCHANGED <<uiRest, ui_kind, ui_wpc, ui_i, ui_sent>>

NextUi ==
    \/ BgPostStatus
    \/ BgPostResult
    \/ BgFinal
    \/ UiRecAdjust
    \/ UiRecLoop
    \/ UiRecExit
    \/ UiRecListen
    \/ UiLoadFile
    \/ UiMainAdjust
    \/ UiMainLoop
    \/ UiMainExit
    \/ UiMainListen
    \/ UiRunPosted

\* a worker has just been started: the test button, or the record button
InitUi ==
    /\ InitRec
    /\ InitImp
    /\ imp_microphone = TRUE
    /\ merge_run = NoRun
    /\ cleanup_run = NoCleanup
    /\ InitCnv
    /\ InitTs
    /\ InitFiles
    /\ InitBatchVars
    /\ ui_kind \in UiWorkers
    /\ ui_wpc = IF ui_kind = "background_task" THEN "status"
                ELSE IF ui_kind = "load_file" THEN "load" ELSE "adjust"
    /\ ui_i = 0
    /\ ui_after = << >>
    /\ ui_sent = << >>
    /\ ui_log = << >>

SpecUi == InitUi /\ [][NextUi]_vars

(***************************************************************************)
(* One call of cleanup_temp_files (made by reset_all on the Tk thread),    *)
(* statement by statement, while a capture thread is in                    *)
(* merge_audio_segments and a conversion thread registers a file of its    *)
(* own.  temp_files and the disk are shared by the three.                  *)
(***************************************************************************)
\* safe_file_cleanup(file_path, max_retries=3)
max_retries == 3

\* the number of segments of the merge that runs beside the call
CleanupSegs == 2

\* the file perform_recognition writes for Whisper and registers
WhisperFile == <<1, "whisper", 0>>

\* the elements of a list
Range(list) == {list[j] : j \in 1..Len(list)}

\* list.remove(x), for x in list: the first occurrence goes
ListRemove(list, x) ==
    LET k == Least({j \in 1..Len(list) : list[j] = x})
    IN  [j \in 1..(Len(list) - 1) |-> IF j < k THEN list[j] ELSE list[j + 1]]

cleanupRest == <<now, is_recording, is_paused, recording_thread, recording_segments,
                 recording_start_time, pause_start_time, total_pause_time, audio_data,
                 ui, ui_queue, lastEvent, disturbed, pc, held, heard, elapsed,
                 impVars, merge_run, cnvVars, tsVars, fileVars, batchVars, uiVars>>

\* the file_path of the iteration the call is at
file_path == cleanup_run.copy[cleanup_run.i]

\* what os.unlink does to a file the environment may hold open or protect, or
\* that another thread has deleted since os.path.exists saw it
UnlinkOutcomes(f, files) ==
    IF f \in files THEN {"deleted", "permission", "error"} ELSE {"error"}

\* the handler that lets the loop go on: any failure
RetriesAny(outcome) == outcome \in {"permission", "error"}

\* the handler that lets the loop go on: except PermissionError; any other
\* exception breaks out of it
Retries(outcome) == outcome = "permission"

\* merge_audio_segments writes and registers its segment files and the combined
\* file, and reaches its deletion loop; or it returns before the loop, the
\* combined waveform being empty, with the segment files left
MergeRegisters ==
    /\ cleanup_run.w_pc = "none"
    /\ LET segNames == [k \in 1..CleanupSegs |-> SegmentFile(1, k)]
       IN  \E loop \in BOOLEAN :
              /\ temp_files' = temp_files \o (IF loop THEN Append(segNames, CombinedFile(1))
                                              ELSE segNames)
              /\ fs' = fs \cup Range(segNames) \cup (IF loop THEN {CombinedFile(1)} ELSE {})
              /\ cleanup_run' = [cleanup_run EXCEPT !.w_files = segNames, !.w_i = 1,
                                                   !.w_pc = IF loop THEN "unlink" ELSE "done"]
    /\ UNCHANGED cleanupRest

\* the merge moves to its next segment file
MergeNextFile(c) ==
    IF c.w_i = Len(c.w_files) THEN [c EXCEPT !.w_pc = "done"]
    ELSE [c EXCEPT !.w_i = @ + 1, !.w_pc = "unlink"]

\* merge_audio_segments: os.unlink(temp_file); a failure is swallowed
MergeUnlink ==
    /\ cleanup_run.w_pc = "unlink"
    /\ LET f == cleanup_run.w_files[cleanup_run.w_i]
       IN  \E outcome \in UnlinkOutcomes(f, fs) :
              IF outcome = "deleted"
              THEN /\ fs' = fs \ {f}
                   /\ cleanup_run' = [cleanup_run EXCEPT !.w_pc = "check"]
              ELSE /\ fs' = fs
                   /\ cleanup_run' = MergeNextFile(cleanup_run)
    /\ UNCHANGED <<temp_files, cleanupRest>>

\* merge_audio_segments: if temp_file in self.temp_files
MergeCheck ==
    /\ cleanup_run.w_pc = "check"
    /\ cleanup_run' = IF cleanup_run.w_files[cleanup_run.w_i] \in Range(temp_files)
                      THEN [cleanup_run EXCEPT !.w_pc = "remove"]
                      ELSE MergeNextFile(cleanup_run)
    /\ UNCHANGED <<temp_files, fs, cleanupRest>>

\* merge_audio_segments: self.temp_files.remove(temp_file); the ValueError for
\* an entry that has gone meanwhile is swallowed
MergeRemove ==
    /\ cleanup_run.w_pc = "remove"
    /\ LET f == cleanup_run.w_files[cleanup_run.w_i]
       IN  IF f \in Range(temp_files)
           THEN /\ temp_files' = ListRemove(temp_files, f)
                /\ cleanup_run' = MergeNextFile([cleanup_run EXCEPT !.w_removed = @ \cup {f}])
           ELSE /\ temp_files' = temp_files
                /\ cleanup_run' = MergeNextFile(cleanup_run)
    /\ UNCHANGED <<fs, cleanupRest>>

\* perform_recognition: the file for Whisper is created and registered
RegisterTemp ==
    /\ ~cleanup_run.registered
    /\ temp_files' = Append(temp_files, WhisperFile)
    /\ fs' = fs \cup {WhisperFile}
    /\ cleanup_run' = [cleanup_run EXCEPT !.registered = TRUE]
    /\ UNCHANGED cleanupRest

\* the for loop of cleanup_temp_files goes to the entry after entry i of the
\* copy, or ends
CleanupNextFile(c) ==
    IF c.i = Len(c.copy) THEN [c EXCEPT !.pc = "return"]
    ELSE [c EXCEPT !.i = @ + 1, !.attempt = 0, !.pc = "exists"]

\* cleanup_temp_files: the two result lists are empty and the loop is entered
\* over a copy of temp_files
CleanupBegin ==
    /\ cleanup_run.pc = "none"
    /\ cleanup_run' = CleanupNextFile([cleanup_run EXCEPT
                          !.copy = temp_files,
                          !.log = [k \in 1..Len(temp_files) |-> << >>]])
    /\ UNCHANGED <<temp_files, fs, cleanupRest>>

\* safe_file_cleanup: if os.path.exists(file_path); return True when it does not
SafeExists ==
    /\ cleanup_run.pc = "exists"
    /\ cleanup_run' =
          IF file_path \in fs THEN [cleanup_run EXCEPT !.pc = "unlink"]
          ELSE [cleanup_run EXCEPT !.log[cleanup_run.i] = Append(@, "absent"),
                                   !.returned = Append(@, TRUE),
                                   !.pc = "returned"]
    /\ UNCHANGED <<temp_files, fs, cleanupRest>>

\* safe_file_cleanup: os.unlink(file_path) and return True; or the exception
\* handlers, the sleep and the next attempt; or return False
SafeUnlink ==
    /\ cleanup_run.pc = "unlink"
    /\ \E outcome \in UnlinkOutcomes(file_path, fs) :
          LET c == [cleanup_run EXCEPT !.log[cleanup_run.i] = Append(@, outcome)]
          IN  IF outcome = "deleted"
              THEN /\ fs' = fs \ {file_path}
                   /\ cleanup_run' = [c EXCEPT !.returned = Append(@, TRUE), !.pc = "returned"]
              ELSE /\ fs' = fs
                   /\ cleanup_run' =
                         IF Retries(outcome) /\ c.attempt + 1 < max_retries
                         THEN [c EXCEPT !.attempt = @ + 1, !.pc = "exists"]
                         ELSE [c EXCEPT !.returned = Append(@, FALSE), !.pc = "returned"]
    /\ UNCHANGED <<temp_files, cleanupRest>>

\* cleanup_temp_files: the branch on the value safe_file_cleanup returned;
\* temp_files.remove raises ValueError when the entry has gone meanwhile, which
\* ends the call
CleanupNote ==
    /\ cleanup_run.pc = "returned"
    /\ IF cleanup_run.returned[cleanup_run.i]
       THEN IF file_path \in Range(temp_files)
            THEN /\ temp_files' = ListRemove(temp_files, file_path)
                 /\ cleanup_run' = CleanupNextFile([cleanup_run EXCEPT
                                       !.cleaned_files = Append(@, file_path)])
            ELSE /\ temp_files' = temp_files
                 /\ cleanup_run' = [cleanup_run EXCEPT !.cleaned_files = Append(@, file_path),
                                                       !.pc = "raised"]
       ELSE /\ temp_files' = temp_files
            /\ cleanup_run' = CleanupNextFile([cleanup_run EXCEPT
                                  !.failed_files = Append(@, file_path)])
    /\ UNCHANGED <<fs, cleanupRest>>

\* cleanup_temp_files: return len(failed_files) == 0
CleanupReturn ==
    /\ cleanup_run.pc = "return"
    /\ cleanup_run' = [cleanup_run EXCEPT !.result = (Len(cleanup_run.failed_files) = 0),
                                          !.pc = "done"]
    /\ UNCHANGED <<temp_files, fs, cleanupRest>>

NextCleanup ==
    \/ MergeRegisters
    \/ MergeUnlink
    \/ MergeCheck
    \/ MergeRemove
    \/ RegisterTemp
    \/ CleanupBegin
    \/ SafeExists
    \/ SafeUnlink
    \/ CleanupNote
    \/ CleanupReturn

SpecCleanup == Init /\ [][NextCleanup]_vars

(***************************************************************************)
(* The properties.                                                         *)
(***************************************************************************)
\* the statements of the while loop of continuous_recording
LoopPcs == {"loop", "pchk", "listen", "got", "got2", "append", "elapsed", "status"}

\* C1: a transition called from a disallowed state (start while recording,
\* pause while not recording or paused, resume while not recording or not
\* paused, stop while not recording) returns and leaves is_recording,
\* is_paused, recording_segments, recording_start_time, pause_start_time,
\* total_pause_time and recording_thread unchanged.
C1_DisallowedCallIsNoOp ==
    [][/\ (StartRecording /\ is_recording) => UNCHANGED ctlFields
       /\ (PauseRecording /\ (~is_recording \/ is_paused)) => UNCHANGED ctlFields
       /\ (ResumeRecording /\ (~is_recording \/ ~is_paused)) => UNCHANGED ctlFields
       /\ ((StopRecording \/ RunPosted) /\ ~is_recording) => UNCHANGED ctlFields]_vars

\* pause_recording has been called on a paused session that holds a segment
C1_Witness ==
    /\ lastEvent = Event("pause", FALSE)
    /\ is_recording /\ is_paused
    /\ recording_segments # << >>

\* C2: in continuous_recording a wait-timeout keeps the thread in the loop and
\* appends no segment, with or without segments; a thread leaves the loop only
\* in a state where is_recording is false, and is_recording is cleared only by
\* stop_recording or reset_all.
C2_SilenceNeverEndsCapture ==
    [][/\ \A t \in Threads :
             /\ ThreadListenTimeout(t) =>
                    /\ pc'[t] \in LoopPcs
                    /\ UNCHANGED <<recording_segments, is_recording>>
             /\ (pc[t] \in LoopPcs /\ pc'[t] \notin LoopPcs) => ~is_recording
       /\ (is_recording /\ ~is_recording') => (StopRecording \/ RunPosted \/ ResetAll)]_vars

\* a wait-timeout has just occurred in a session that holds a segment, and the
\* session's thread is still in the loop
C2_Witness ==
    /\ lastEvent = Event("wait_timeout", TRUE)
    /\ is_recording
    /\ recording_segments # << >>
    /\ recording_thread # NoThread
    /\ pc[recording_thread] = "loop"

\* C3: in ImprovedSpeechToTextApp continuous mode, once a segment has been
\* captured a wait-timeout of listen() never ends the recording: the thread
\* stays in the loop and no stop is scheduled.
C3_PausesNeverEndRecording ==
    [][\A t \in Threads :
          (ImpThreadListenTimeout(t) /\ imp_is_recording /\ imp_segment_count[t] > 0)
              => (imp_pc'[t] = "loop" /\ UNCHANGED imp_ui_queue)]_vars

\* C4: a chunk is appended only if neither pause_recording nor stop_recording
\* ran between the call of listen() that returned it and the append.
C4_DisturbedChunkIsDiscarded ==
    [][\A t \in Threads : ThreadAppend(t) => t \notin disturbed]_vars

\* C5: while the session is paused (before and after the step) the threads in
\* the capture loop stay in it and recording_segments does not change.
C5_PausedSegmentsFrozen ==
    [][(is_recording /\ is_paused /\ is_recording' /\ is_paused') =>
          /\ recording_segments' = recording_segments
          /\ \A t \in Threads : pc[t] \in LoopPcs => pc'[t] \in LoopPcs]_vars

\* C6: stop_recording called while recording or paused returns whatever the
\* capture thread does (the join can always end), with is_recording and
\* is_paused false and pause_start_time cleared; a pause in progress has been
\* added to total_pause_time.
C6_StopAlwaysReturns ==
    /\ [](ui = "joining" => ENABLED StopJoinReturn)
    /\ []((lastEvent = Event("stop", TRUE) /\ ui = "idle") =>
             (~is_recording /\ ~is_paused /\ pause_start_time = NoTime))
    /\ [][((StopRecording \/ RunPosted) /\ is_recording /\ is_paused) =>
             /\ total_pause_time' = total_pause_time + (now - pause_start_time)
             /\ pause_start_time' = NoTime]_vars

\* stop_recording has returned after a pause of non-zero length while the
\* session's thread is still blocked in listen()
C6_Witness ==
    /\ lastEvent = Event("stop", TRUE)
    /\ ui = "idle"
    /\ recording_thread # NoThread
    /\ pc[recording_thread] = "listen"
    /\ total_pause_time > 0

\* C7: start_recording from the not-recording state sets is_recording, clears
\* is_paused, empties recording_segments, sets recording_start_time to now,
\* resets total_pause_time and starts exactly one new thread, which becomes
\* recording_thread.
C7_StartInitialisesSession ==
    [][(StartRecording /\ ~is_recording) =>
          /\ is_recording' /\ ~is_paused'
          /\ recording_segments' = << >>
          /\ recording_start_time' = now
          /\ total_pause_time' = 0
          /\ Cardinality({t \in Threads : pc'[t] # pc[t]}) = 1
          /\ pc[recording_thread'] = "unborn"
          /\ pc'[recording_thread'] = "adjust"]_vars

\* a second session has just been started, after one that captured a chunk
\* and left a recording
C7_Witness ==
    /\ lastEvent = Event("start", TRUE)
    /\ recording_thread = 2
    /\ pc[2] = "adjust"
    /\ heard >= 1
    /\ audio_data # NoAudio
    /\ recording_segments = << >>

\* the input, the output and the environment of the merge run
MergeInput == IF merge_run.app = "main" THEN recording_segments ELSE imp_recording_segments
MergeOutput == IF merge_run.app = "main" THEN audio_data ELSE imp_audio_data
MergeDone == merge_run.state = "done"
AllReadable ==
    /\ merge_run.env.wfail = {} /\ merge_run.env.rfail = {}
    /\ merge_run.env.export_ok /\ merge_run.env.tmpfail = 0

RECURSIVE WithGapsBetween(_)
\* the segments with one silence gap between each two consecutive ones
WithGapsBetween(segs) ==
    IF Len(segs) <= 1 THEN segs
    ELSE <<Head(segs), Silent(SilenceGap)>> \o WithGapsBetween(Tail(segs))

C9_GapBetweenSegments ==
    (MergeDone /\ Len(MergeInput) >= 2 /\ AllReadable) =>
        /\ MergeOutput = WithGapsBetween(MergeInput)
        /\ Duration(MergeOutput) = Duration(MergeInput) + (Len(MergeInput) - 1) * SilenceGap

\* C10: a merge of zero segments leaves audio_data as it was, and a merge of
\* one segment sets audio_data to that segment; neither creates a temp file.
C10_ZeroOrOneSegment ==
    /\ (MergeDone /\ Len(MergeInput) = 0) =>
            (MergeOutput = merge_run.before /\ fs = {} /\ temp_files = << >>)
    /\ (MergeDone /\ Len(MergeInput) = 1) =>
            (MergeOutput = <<MergeInput[1]>> /\ fs = {} /\ temp_files = << >>)

\* a merge of one segment has run over an earlier recording, in an
\* environment where writing the segment's file would fail
C10_Witness ==
    /\ MergeDone
    /\ Len(MergeInput) = 1
    /\ merge_run.before = PriorAudio
    /\ merge_run.env.wfail = {1}
    /\ MergeOutput = <<MergeInput[1]>>

\* some segment of the merge run was written and loaded
SomeReadable ==
    \E i \in 1..Len(MergeInput) : i \notin merge_run.env.wfail \cup merge_run.env.rfail

\* C11: in a merge of n >= 2 segments of which at least one is readable, when
\* the creation, export or reload of the combined file fails, audio_data is
\* the first captured segment; the same holds when the creation of a segment's
\* temp file raises.
C11_FallbackToFirstSegment ==
    (MergeDone /\ Len(MergeInput) >= 2) =>
        /\ (SomeReadable /\ (~merge_run.env.export_ok
                              \/ merge_run.env.tmpfail = Len(MergeInput) + 1))
              => MergeOutput = <<MergeInput[1]>>
        /\ merge_run.env.tmpfail \in 1..Len(MergeInput)
              => MergeOutput = <<MergeInput[1]>>

\* SpeechToTextApp has merged three segments over an earlier recording; the
\* first segment's file could not be loaded and the export failed
C11_Witness ==
    /\ MergeDone /\ merge_run.app = "main"
    /\ Len(MergeInput) = 3
    /\ merge_run.before = PriorAudio
    /\ merge_run.env.rfail = {1}
    /\ ~merge_run.env.export_ok
    /\ MergeOutput = <<MergeInput[1]>>

\* C12: a conversion thread that runs while the Whisper engine is selected
\* and no model is loaded calls the Google recognizer, and the switch has
\* been written to the result display.
C12_AbsentModelFallsBackToGoogle ==
    [][((PerformSingleConversion \/ ImpPerformConversion)
          /\ engine_var = "whisper" /\ ~whisper_model)
         => (cnv_backend' = "google" /\ cnv_told)]_vars

\* C16: when Whisper returns no segment for a non-empty recognized text, the
\* formatted text is the non-empty estimated annotation of that text; when
\* the exact path raises, the formatted text is the estimated annotation of
\* the text already recognized.
C16_ExactFallsBackToEstimate ==
    ts_state = "done" =>
        /\ (ts_in.exact = "segments" /\ ts_in.segments = << >> /\ ~Falsy(ts_in.text))
              => /\ ~Falsy(ts_out)
                 /\ ts_out = add_timestamps_to_text(ts_in.text, ts_in.start_time, TRUE)
        /\ ts_in.exact = "raise"
              => ts_out = add_timestamps_to_text(ts_in.text, ts_in.start_time, TRUE)

\* the strictly increasing maps from 1..m into 1..n
Increasing(m, n) == {f \in [1..m -> 1..n] : \A i, j \in 1..m : i < j => f[i] < f[j]}

\* C17: the output of the exact path has one line for each native segment
\* whose stripped text is not empty, in the order of the segments, and the
\* stamp of a line is the formatting of start_time + segment.start.
C17_ExactLinePerSegment ==
    (ts_state = "done" /\ ts_in.exact = "segments") =>
        LET segs == ts_in.segments
            full == {i \in 1..Len(segs) : Strip(segs[i].text) # ""}
            out == ts_out.lines
        IN  /\ ~ts_out.none
            /\ Len(out) = Cardinality(full)
            /\ \E f \in Increasing(Len(out), Len(segs)) :
                  \A k \in 1..Len(out) :
                      /\ f[k] \in full
                      /\ out[k].text = Strip(segs[f[k]].text)
                      /\ out[k].stamp = format_timestamp(ts_in.start_time + segs[f[k]].start)

\* the exact path has run at offset 59:59.5 on an empty segment followed by
\* a segment starting at 1.5 s: one line, stamped 01:00:01
C17_Witness ==
    /\ ts_state = "done" /\ ts_in.exact = "segments"
    /\ ts_in.start_time = 7199
    /\ Len(ts_in.segments) = 2
    /\ ts_in.segments[1].text = " "
    /\ ts_in.segments[2] = [start |-> 3, text |-> " a"]
    /\ ts_out.lines = <<[stamp |-> <<1, 0, 1>>, text |-> "a"]>>

\* C15: after any sequence of add_audio_files, remove_selected, move_up,
\* move_down and clear_audio_files the entry at position i of audio_files (from
\* 0) has order i + 1, so the order fields are exactly 1..N.
C15_OrderIsPosition ==
    /\ \A i \in 1..Len(audio_files) : audio_files[i].order = i
    /\ {audio_files[i].order : i \in 1..Len(audio_files)} = 1..Len(audio_files)

\* move_up has just moved the last of three files to the middle, between two
\* entries for one and the same file
C15_Witness ==
    /\ file_op = "move_up"
    /\ Len(audio_files) = 3
    /\ selection = 2
    /\ audio_files[2].path = "d1/b.mp3"
    /\ audio_files[1].path = "d1/a.wav"
    /\ audio_files[3].path = "d1/a.wav"

RECURSIVE TrueOffset(_)
\* the sum of the durations of the first k files of the list
TrueOffset(k) ==
    IF k = 0 THEN 0 ELSE TrueOffset(k - 1) + DurationOf(audio_files[k].path)

\* C13: the running offset used as start offset of the section of file i is
\* the sum of the durations of the files before it, whether or not they
\* failed to decode or to be recognized.
C13_OffsetIsSumOfDurations ==
    \A k \in 1..Len(all_text) : all_text[k].offset = TrueOffset(all_text[k].file - 1)

\* C14: a batch never aborts; when it ends there is one section per file and
\* the final transcript has been posted to the result display.
C14_BatchNeverAborts ==
    /\ batch_pc # "aborted"
    /\ batch_pc = "done" =>
          /\ Len(all_text) = total_files
          /\ total_files = Len(audio_files)
          /\ \/ \E q \in 1..Len(batch_queue) : batch_queue[q].fn = "safe_update_result"
             \/ text_result = <<"final_text">>

\* C20: once stop_recording has returned, the capture loop of the stopped
\* session is no longer running, and at any time at most one capture thread
\* is in its loop and able to append to recording_segments -- also when a
\* session is started while the listen() of the previous one has not returned.
C20_OneCaptureLoop ==
    /\ (lastEvent = Event("stop", TRUE) /\ ui = "idle") =>
           \A t \in Threads : pc[t] \notin LoopPcs
    /\ Cardinality({t \in Threads : pc[t] \in LoopPcs}) <= 1

\* C18: in single-utterance mode every started session stops by itself:
\* after listen() has returned (with a chunk or a wait-timeout)
\* stop_recording is run and is_recording becomes false, also when the
\* session was paused and resumed during the capture.
C18_SessionAutoStops == is_recording ~> ~is_recording

\* the calls of the log made by the Tk thread, in order
ByTk == SelectSeq(ui_log, LAMBDA e : e.by = "tk")

\* C19: a worker thread never calls a widget or a message box itself; every
\* update it causes is posted with root.after and run by the Tk thread in
\* the order posted, so the widgets have received a prefix of what was
\* posted and, once the queue is empty, all of it.
C19_WorkersOnlyPost ==
    /\ \A k \in 1..Len(ui_log) : ui_log[k].by = "tk"
    /\ Len(ByTk) <= Len(ui_sent)
    /\ \A k \in 1..Len(ByTk) : k <= Len(ui_sent) /\ ByTk[k].call.fn = ui_sent[k].fn
                                  /\ ToString(ByTk[k].call.arg) = ToString(ui_sent[k].arg)
    /\ ui_after = << >> => Len(ByTk) = Len(ui_sent)

\* C21: merge_audio_segments is invoked once over a session's segments,
\* after the capture loop has exited, and not at all for a session without
\* segments: no two threads are at the call over the same
\* recording_segments, and no thread is at the call with no segment, also
\* after a join that timed out or a start before the old loop has exited.
C21_MergeOncePerSession ==
    /\ Cardinality({t \in Threads : pc[t] = "merge"}) <= 1
    /\ \A t \in Threads : pc[t] = "merge" => recording_segments # << >>

\* C22: a capture error other than a wait-timeout, raised in one turn of
\* the loop of continuous_recording of either class, leaves the thread in
\* the loop and leaves the recording flag, the segments, the recording and
\* the posted callbacks as they are.
C22_ErrorNeverEndsCapture ==
    [][/\ \A t \in Threads : ThreadListenError(t) =>
              /\ pc'[t] = "loop"
              /\ UNCHANGED <<is_recording, is_paused, recording_segments, audio_data, ui_queue>>
       /\ \A t \in Threads : ImpThreadListenError(t) =>
              /\ imp_pc'[t] = "loop"
              /\ UNCHANGED <<imp_is_recording, imp_recording_segments, imp_audio_data,
                             imp_ui_queue>>]_vars

\* SpeechToTextApp: a listen() error has just been absorbed in a session
\* that holds a segment, and the thread is back at the loop test
C22_Witness ==
    /\ cnv_app = "main"
    /\ lastEvent = Event("listen_error", TRUE)
    /\ is_recording
    /\ Len(recording_segments) = 1
    /\ \E t \in Threads : pc[t] = "loop" /\ recording_thread = t

\* the segments of the merge run that were written and loaded, in order
ReadableSegments ==
    SelectSeq(MergeInput, LAMBDA c : c.n \notin merge_run.env.wfail \cup merge_run.env.rfail)

\* C23: in a merge of n >= 2 segments a segment that cannot be written or
\* loaded is skipped: the merged recording holds exactly the readable
\* segments, in their order.
C23_UnreadableSegmentSkipped ==
    (/\ MergeDone /\ Len(MergeInput) >= 2 /\ SomeReadable
     /\ merge_run.env.export_ok /\ merge_run.env.tmpfail = 0) =>
        Speech(MergeOutput) = ReadableSegments

C25_SegmentFilesReleased ==
    MergeDone =>
        /\ {f \in fs : f[2] = "segment"} = {}
        /\ \A k \in 1..Len(temp_files) : temp_files[k][2] # "segment"

\* C27: the caller of a recognition can tell the kinds of failure apart:
\* two posted outcomes of different kinds (speech not recognized, service
\* failure, model not loaded, other) never carry the same text.
C27_FailureKindsDistinct ==
    \A i, j \in 1..Len(cnv_queue) :
        cnv_queue[i].text = cnv_queue[j].text => cnv_queue[i].kind = cnv_queue[j].kind

\* the files named in the temp_files registry
Registered == {temp_files[k] : k \in 1..Len(temp_files)}

\* C26: every temp file on disk is in the temp_files registry, and the
\* registry is empty once stop_recording has returned and once reset_all
\* has run with every deletion succeeding.
C26_RegistryEmptiedOnStop ==
    [][/\ fs' \subseteq Registered'
       /\ (lastEvent' = Event("stop", TRUE) /\ ui' = "idle") => temp_files' = << >>
       /\ (ResetAll /\ fs' \cap Registered = {}) => temp_files' = << >>]_vars

\* C30: from start_recording to the merge (reset_all apart, which discards
\* the session) recording_segments only grows at its end, and its chunks
\* are in the order in which their listen() calls returned, each at most
\* once.
C30_SegmentsAppendOnly ==
    [][/\ (Alive(recording_thread) /\ ~ResetAll) =>
              /\ Len(recording_segments') >= Len(recording_segments)
              /\ SubSeq(recording_segments', 1, Len(recording_segments)) = recording_segments
       /\ \A i, j \in 1..Len(recording_segments') :
              i < j => recording_segments'[i].n < recording_segments'[j].n]_vars


\* the paths of the entries of a file list, and of the sections of the
\* transcript
ListPaths(files) == [k \in 1..Len(files) |-> files[k].path]

SectionPaths == [k \in 1..Len(all_text) |-> all_text[k].path]

\* C28: when a batch run finishes, the transcript has exactly one section
\* for each entry of the file list, in the order of the list (the list as it
\* was when the run began, or as it is now), also when the coordinator edits
\* the list while the worker iterates
C28_OneSectionPerEntry ==
    batch_pc = "done" =>
        \/ SectionPaths = ListPaths(batch_started)
        \/ SectionPaths = ListPaths(audio_files)

\* C29: within a batch run the start offsets shown in the section titles
\* (time stamps on, file converted) never decrease from one section to a
\* later one, also when reset_all runs during the run
C29_OffsetsNonDecreasing ==
    enable_timestamps =>
        \A k, m \in 1..Len(all_text) :
            (k < m /\ ~all_text[k].failed /\ ~all_text[m].failed) =>
                all_text[k].offset <= all_text[m].offset

\* the effective elapsed recording time of the fields at this instant
EffectiveElapsed ==
    now - recording_start_time - total_pause_time
        - (IF is_paused THEN now - pause_start_time ELSE 0)

\* total_pause_time changes only by the length of the pause that a resume or
\* a stop ends, and to 0 at a start or a reset
PauseCountedOnce ==
    (total_pause_time' # total_pause_time) =>
        \/ lastEvent'.op \in {"start", "reset"} /\ total_pause_time' = 0
        \/ /\ lastEvent'.op \in {"resume", "stop"}
           /\ is_paused
           /\ total_pause_time' = total_pause_time + (now - pause_start_time)

\* C31: the effective elapsed recording time is never negative, as a
\* function of the fields and as the capture loop computes it for the
\* status text; it does not advance while the session is Paused; and
\* total_pause_time, which stop_recording subtracts from the total time,
\* counts every pause interval once, whether a resume or a stop ends it.
C31_EffectiveElapsed ==
    /\ [](recording_start_time # NoTime => EffectiveElapsed >= 0)
    /\ [](\A t \in Threads : pc[t] = "status" => ShownElapsed(t) >= 0)
    /\ [][(is_recording /\ is_paused /\ is_recording' /\ is_paused') =>
              EffectiveElapsed' = EffectiveElapsed]_vars
    /\ [][PauseCountedOnce]_vars

\* C35: is_paused implies is_recording, and pause_start_time is set exactly
\* when is_paused is true.
C35_PausedImpliesRecording ==
    /\ is_paused => is_recording
    /\ is_paused <=> pause_start_time # NoTime

\* a paused session, one tick after pause_recording
C35_Witness ==
    /\ is_recording
    /\ is_paused
    /\ pause_start_time = 1
    /\ now = 2
    /\ lastEvent = Event("pause", TRUE)

\* the seconds a formatted time stamp stands for
StampSeconds(stamp) ==
    IF Len(stamp) = 3 THEN stamp[1] * 3600 + stamp[2] * 60 + stamp[3]
    ELSE stamp[1] * 60 + stamp[2]

\* C32: in estimated mode a text of n >= 1 sentences gives exactly n lines;
\* line k (from 0) carries the stamp of start_time + k * (D / n), with D the
\* estimated duration, at least 10 seconds; the first stamp is that of
\* start_time and the stamps never decrease.
C32_EstimatedStamps ==
    (ts_state = "done" /\ ~ts_in.loaded) =>
        LET sentences == SelectSeq(ts_in.text.lines, LAMBDA l : Strip(l.text) \notin {"", "."})
            n == Len(sentences)
            D == IF WordCount(ts_in.text.lines) * 4 > 100
                 THEN (WordCount(ts_in.text.lines) * 4) \div 5 ELSE 20
        IN  n >= 1 =>
              /\ ~ts_out.none
              /\ Len(ts_out.lines) = n
              /\ \A k \in 0..(n - 1) :
                    /\ ts_out.lines[k + 1].stamp =
                           format_timestamp(ts_in.start_time + (k * D) \div n)
                    /\ ts_out.lines[k + 1].text = Strip(sentences[k + 1].text)
              /\ ts_out.lines[1].stamp = format_timestamp(ts_in.start_time)
              /\ \A k \in 1..(n - 1) :
                    StampSeconds(ts_out.lines[k].stamp) <= StampSeconds(ts_out.lines[k + 1].stamp)

\* two long sentences from 59 min 59.5 s on: the second stamp is past the hour
C32_Witness ==
    /\ ts_state = "done"
    /\ ~ts_in.loaded
    /\ ts_in.start_time = 7199
    /\ ts_in.text = Str(<<RawLine("long"), RawLine(" "), RawLine("long")>>)
    /\ Len(ts_out.lines) = 2
    /\ ts_out.lines[2].stamp = <<1, 0, 19>>

\* the time (in half seconds) each line of a finished synthesis is stamped
\* with: the start of its segment in exact mode, the estimated start of its
\* sentence in estimated mode
LineTimes ==
    IF ts_in.loaded /\ ts_in.exact = "segments"
    THEN LET kept == SelectSeq(ts_in.segments, LAMBDA g : Strip(g.text) # "")
         IN  [k \in 1..Len(kept) |-> ts_in.start_time + kept[k].start]
    ELSE LET text == IF ts_in.loaded THEN ts_in.again ELSE ts_in.text
             n == Len(split_into_sentences(text))
         IN  [k \in 1..n |->
                 ts_in.start_time + ((k - 1) * get_estimated_speech_duration(text)) \div n]

\* C33: a stamp of t whole seconds is [HH:MM:SS] exactly when t >= 3600 and
\* [MM:SS] otherwise, with HH = t div 3600, MM = (t mod 3600) div 60 and
\* SS = t mod 60, both below 60, so that HH*3600 + MM*60 + SS = t; the lines
\* of the exact and of the estimated mode carry stamps of this one form.
C33_StampFormat ==
    (ts_state = "done" /\ ~ts_out.none /\ Len(ts_out.lines) = Len(LineTimes)) =>
        \A k \in 1..Len(LineTimes) :
            LET t == LineTimes[k] \div 2
                stamp == ts_out.lines[k].stamp
            IN  /\ Len(stamp) = IF t >= 3600 THEN 3 ELSE 2
                /\ stamp[Len(stamp)] = t % 60
                /\ stamp[Len(stamp) - 1] = (t % 3600) \div 60
                /\ stamp[Len(stamp)] \in 0..59
                /\ stamp[Len(stamp) - 1] \in 0..59
                /\ Len(stamp) = 3 => stamp[1] = t \div 3600
                /\ StampSeconds(stamp) = t

\* exact mode: a segment half a second into a file that starts at
\* 59 min 59.5 s is stamped [01:00:00]
C33_Witness ==
    /\ ts_state = "done"
    /\ ts_in.loaded
    /\ ts_in.exact = "segments"
    /\ ts_in.start_time = 7199
    /\ Len(ts_out.lines) = 2
    /\ ts_out.lines[1].stamp = <<59, 59>>
    /\ ts_out.lines[2].stamp = <<1, 0, 0>>

\* the error box of a capture-setup failure has been requested, by a post
\* or by a call of the worker
ErrorBoxRequested(sent, log) ==
    \/ \E k \in 1..Len(sent) : sent[k].fn = "showerror"
    \/ \E k \in 1..Len(log) : log[k].call.fn = "showerror"

\* C34: when the capture loop of continuous_recording ends with no segment
\* the worker posts the status that no audio was recorded; when the set-up
\* of record_audio fails the error box is requested and stop_recording is
\* posted, which returns the session to not recording.
C34_TerminalConditionsReported ==
    [][/\ (ui_wpc = "exit" /\ ui_wpc' = "done" /\ ui_i = 0) =>
              /\ Len(ui_sent') = Len(ui_sent) + 1
              /\ ui_sent'[Len(ui_sent')] = Call("record_status.config", "no_audio")
       /\ (ui_wpc = "adjust" /\ ui_wpc' = "done") =>
              /\ ErrorBoxRequested(ui_sent', ui_log')
              /\ ui_sent'[Len(ui_sent')] = Call("stop_recording", "none")]_vars

\* C36: once a session has been started and stopped and every capture
\* thread has ended, audio_data is empty or made of segments of that
\* session's recording_segments; it is not a recording left from before
\* start_recording.
C36_NoStaleAudio ==
    (/\ recording_start_time # NoTime
     /\ ~is_recording
     /\ ui = "idle"
     /\ \A t \in Threads : ~Alive(t)) =>
        \/ audio_data = NoAudio
        \/ \A k \in 1..Len(Speech(audio_data)) :
              \E j \in 1..Len(recording_segments) : recording_segments[j] = Speech(audio_data)[k]

\* C37: from the return of reset_all until the next call of the controller,
\* audio_data and recording_segments are empty: no step of a capture thread
\* of the interrupted session writes the one or appends to the other.
C37_ResetStaysEmpty ==
    lastEvent = Event("reset", TRUE) =>
        /\ audio_data = NoAudio
        /\ recording_segments = << >>

\* the (path, name) pairs of a file list, in order
Entries(files) == [i \in 1..Len(files) |-> <<files[i].path, files[i].name>>]

\* the same entries, each as many times
SameEntries(f, g) ==
    /\ Len(f) = Len(g)
    /\ \A i \in 1..Len(f) :
          Cardinality({j \in 1..Len(f) : f[j] = f[i]}) = Cardinality({j \in 1..Len(g) : g[j] = f[i]})

\* C38: move_up with the row at position k selected (from 1 here) exchanges
\* the entries at k and k - 1 when k > 1 and changes nothing when k = 1;
\* move_down exchanges those at k and k + 1 when k < N and changes nothing
\* when k = N; both keep the length and the entries, also with one file
\* listed more than once.
C38_MoveSwapsSelected ==
    [][/\ (MoveUp /\ selection \in 1..Len(audio_files)) =>
              Entries(audio_files') =
                  IF selection > 1
                  THEN Swap(Entries(audio_files), selection, selection - 1)
                  ELSE Entries(audio_files)
       /\ (MoveDown /\ selection \in 1..Len(audio_files)) =>
              Entries(audio_files') =
                  IF selection < Len(audio_files)
                  THEN Swap(Entries(audio_files), selection, selection + 1)
                  ELSE Entries(audio_files)
       /\ (MoveUp \/ MoveDown) => SameEntries(Entries(audio_files), Entries(audio_files'))]_vars

\* the outcome of the last attempt made on entry k of the copy
LastOutcome(k) == cleanup_run.log[k][Len(cleanup_run.log[k])]

\* C39: safe_file_cleanup makes at most max_retries attempts on a file, goes
\* on to another attempt only after a permission failure (and then always,
\* while attempts are left), and returns True exactly when it found the file
\* absent or deleted it; the file is then not on disk.  When cleanup_temp_files
\* has returned, no path whose cleanup returned True is in temp_files, every
\* path whose cleanup returned False is (unless the merge took its own segment
\* file out), a path registered after the copy was made is, and the value
\* returned is True exactly when no cleanup returned False.
C39_BoundedRetryCleanup ==
    LET c == cleanup_run
    IN  /\ \A k \in 1..Len(c.log) :
              /\ Len(c.log[k]) <= max_retries
              /\ \A j \in 1..(Len(c.log[k]) - 1) : c.log[k][j] = "permission"
              /\ k <= Len(c.returned) =>
                    /\ c.returned[k] = (LastOutcome(k) \in {"absent", "deleted"})
                    /\ c.returned[k] => c.copy[k] \notin fs
                    /\ (~c.returned[k] /\ LastOutcome(k) = "permission") =>
                          Len(c.log[k]) = max_retries
        /\ c.pc = "done" =>
              /\ Len(c.returned) = Len(c.copy)
              /\ \A k \in 1..Len(c.copy) :
                    /\ c.returned[k] => c.copy[k] \notin Range(temp_files)
                    /\ (~c.returned[k] /\ c.copy[k] \notin c.w_removed) =>
                          c.copy[k] \in Range(temp_files)
              /\ (c.registered /\ WhisperFile \notin Range(c.copy)) =>
                    WhisperFile \in Range(temp_files)
              /\ c.result = (\A k \in 1..Len(c.copy) : c.returned[k])

\* cleanup_temp_files has returned False: one file was deleted at the second
\* attempt, one was given up after three permission failures and one at once
\* on another error; the two failed ones are what temp_files holds
C39_Witness ==
    /\ cleanup_run.pc = "done"
    /\ cleanup_run.result = FALSE
    /\ \E k \in 1..Len(cleanup_run.log) : cleanup_run.log[k] = <<"permission", "deleted">>
    /\ \E k \in 1..Len(cleanup_run.log) :
          cleanup_run.log[k] = <<"permission", "permission", "permission">>
    /\ \E k \in 1..Len(cleanup_run.log) : cleanup_run.log[k] = <<"error">>
    /\ temp_files = cleanup_run.failed_files
    /\ Len(temp_files) = 2

=============================================================================
